---- MODULE Spec2Model ----
(***************************************************************************)
(* A model of the jsonapi_framework resource codec (src/resource.py) and   *)
(* of the request handlers that drive it (src/handler.py).                 *)
(*                                                                         *)
(* One resource type ("article") is registered with a schema drawn from    *)
(* every combination of the field properties writable_during, nullable and *)
(* has_default.  One record of that type is stored.  A behaviour is one    *)
(* request against it: Resource.deserialize (optionally followed by        *)
(* Resource.serialize and a second deserialize), ResourceHandler.patch,    *)
(* ToOneRelationshipHandler.patch or Resource.serialize of the stored      *)
(* record.                                                                 *)
(*                                                                         *)
(* Encoding of Python values: None is the number 0 (keys and attribute     *)
(* values are positive); a Python exception that is not a                  *)
(* jsonapi_framework.errors.Error is the status named after its class      *)
(* ("TypeError", "KeyError", ...); an errors.Error is its http status as a *)
(* string ("400", "403", "422").  Python iterates the key sets of a        *)
(* document in an unspecified order: every order is a behaviour.           *)
(***************************************************************************)
EXTENDS Integers, Sequences, FiniteSets, TLC

\* ------------------------------------------------------------------ bounds
\* attribute values that a document or a record may hold are 1..NumValues
NumValues == 2
\* primary and foreign keys are 1..MaxKey
MaxKey == 2

\* ------------------------------------------------------ values of the code
\* Python's None (a record column that was never set, JSON null)
None == 0

AttrValues == 1..NumValues
Keys == 1..MaxKey

\* jsonapi_framework.context.Context and ALWAYS_SET
Context == {"CREATE", "UPDATE"}
ALWAYS_SET == Context

\* the registered resource class and the class its relationship points to
japi_resource_type == "article"
japi_resource_url_component == "articles"
related_resource_type == "person"
OtherType == "comment"
link_prefix == "/api"

\* wire names of the schema, and a name that no schema declares
AttrNames == {"title"}
RelNames == {"author"}
ExtraName == "bogus"

\* mapped_attribute_name defaults to the name the field is assigned to
mapped_attribute_name(name) == name
\* mapped_fk_name of the to-one relationship
mapped_fk_name(name) == IF name = "author" THEN "author_id" ELSE "fk"
mapped_pk_name == "id"

Columns ==
    {mapped_pk_name} \cup {mapped_attribute_name(a) : a \in AttrNames}
                     \cup {mapped_fk_name(r) : r \in RelNames}

\* ------------------------------------------------------- str() and int()
\* decimal representations of the keys of the model
DecStr == <<"1", "2", "3", "4", "5", "6", "7", "8", "9">>

\* str(x) for a key or None
Str(x) == IF x = None THEN "None" ELSE DecStr[x]

\* int(s): [ok, val]; not ok is Python's ValueError
IntOf(s) ==
    IF \E n \in DOMAIN DecStr : DecStr[n] = s
    THEN [ok |-> TRUE, val |-> CHOOSE n \in DOMAIN DecStr : DecStr[n] = s]
    ELSE [ok |-> FALSE, val |-> None]

\* the strings a document may carry as the id of a resource identifier
IdStrings == {Str(k) : k \in Keys} \cup {"x"}

\* ------------------------------------------------------------------ schema
\* BaseField.__init__: the three properties every field carries
Field == [writable_during : SUBSET Context, nullable : BOOLEAN,
          has_default : BOOLEAN]

\* ResourceMeta.__init__: the two wire-name maps of a resource class
Schemas == [attrs : [AttrNames -> Field], rels : [RelNames -> Field]]

\* all orders in which the keys of S may be iterated
Perms(S) ==
    {s \in [1..Cardinality(S) -> S] :
        \A i, j \in 1..Cardinality(S) : i # j => s[i] # s[j]}

\* --------------------------------------------------------------- documents
\* link_for_resource, link_for_relationship, link_for_related: the segments
\* that the format string joins with "/"
link_for_resource(prefix, component, id) == <<prefix, component, id>>
link_for_relationship(prefix, component, id, name) ==
    <<prefix, component, id, "relationships", name>>
link_for_related(prefix, component, id, name) ==
    <<prefix, component, id, name>>

\* A relationship member of a document.  kind is what the value is:
\*   "null"     the member itself is null
\*   "nodata"   an object without a data member (links or meta only)
\*   "datanull" an object whose data is null
\*   "datastr"  an object whose data is a string
\*   "ident"    an object whose data is {"type": type, "id": id}
RelValue(kind, type, id, links) ==
    [kind |-> kind, type |-> type, id |-> id, links |-> links]

InputRelValues ==
    {RelValue(k, "", "", {}) : k \in {"null", "nodata", "datanull", "datastr"}}
    \cup {RelValue("ident", t, i, {}) :
            t \in {related_resource_type, OtherType}, i \in IdStrings}

\* the attributes objects a request may carry
InputAttributes ==
    UNION { {f \in [S -> AttrValues \cup {None}] :
                ExtraName \in S => f[ExtraName] = 1} :
            S \in SUBSET (AttrNames \cup {ExtraName}) }

\* the relationships objects a request may carry
InputRelationships ==
    UNION { {f \in [S -> InputRelValues] :
                ExtraName \in S =>
                    f[ExtraName] = RelValue("ident", related_resource_type,
                                            Str(1), {})} :
            S \in SUBSET (RelNames \cup {ExtraName}) }

\* A resource object.  has_attributes and has_relationships say whether the
\* member is present; an absent member has the empty map.
Document(type, id, links, attributes, relationships) ==
    [type |-> type, id |-> id, links |-> links,
     has_attributes |-> DOMAIN attributes # {},
     attributes |-> attributes,
     has_relationships |-> DOMAIN relationships # {},
     relationships |-> relationships]

InputDocuments ==
    {Document(t, Str(1), {}, a, r) :
        t \in {japi_resource_type, OtherType},
        a \in InputAttributes, r \in InputRelationships}

EmptyMap == [n \in {} |-> None]
NoDocument == Document("", "", {}, EmptyMap, EmptyMap)

\* ----------------------------------------------------------------- records
\* cls.model_class(): a fresh model instance, no column set
NewModel == [c \in Columns |-> None]

\* the record that the store holds when the request arrives
StoredModel == [c \in Columns |-> 1]

\* ------------------------------------------------------- field accessors
\* The state a codec call threads through its loops: status is "ok" until an
\* exception is raised, model is the record being written, log is the set of
\* wire names whose bound setter (_fset) has been invoked.
Running(m, log) == [status |-> "ok", model |-> m, log |-> log]
Raise(st, error) == [st EXCEPT !.status = error]

\* field._fget(model), the getter derived from the mapped column
FGet(m, column) == m[column]

\* field._fset(model, value), the setter derived from the mapped column: a
\* field that is writable in no context gets the poisoned setter
FSet(field, column, name, value, st) ==
    IF field.writable_during = {}
    THEN [st EXCEPT !.status = "AttributeError", !.log = @ \cup {name}]
    ELSE [st EXCEPT !.model[column] = value, !.log = @ \cup {name}]

\* Attribute.deserialize
AttributeDeserialize(prim_value) == prim_value

\* Attribute.deserialize_into_obj
AttributeDeserializeIntoObj(field, name, prim_value, st) ==
    FSet(field, mapped_attribute_name(name), name,
         AttributeDeserialize(prim_value), st)

\* Attribute.serialize
AttributeSerialize(m, name) == FGet(m, mapped_attribute_name(name))

\* ToOneRelationship.deserialize: [status, val]
ToOneDeserialize(value) ==
    CASE value.kind = "null" -> [status |-> "TypeError", val |-> None]
      [] value.kind = "nodata" -> [status |-> "KeyError", val |-> None]
      [] value.kind = "datanull" -> [status |-> "ok", val |-> None]
      [] value.kind = "datastr" -> [status |-> "TypeError", val |-> None]
      [] OTHER ->
            IF value.type # related_resource_type
            THEN [status |-> "400", val |-> None]
            ELSE IF ~IntOf(value.id).ok
            THEN [status |-> "ValueError", val |-> None]
            ELSE [status |-> "ok", val |-> IntOf(value.id).val]

\* ToOneRelationship.deserialize_into_obj
ToOneDeserializeIntoObj(field, name, value, st) ==
    LET d == ToOneDeserialize(value) IN
    IF d.status # "ok" THEN Raise(st, d.status)
    ELSE FSet(field, mapped_fk_name(name), name, d.val, st)

\* ToOneRelationship.serialize
ToOneSerialize(m, name, resource_id, prefix) ==
    LET related_resource_id == FGet(m, mapped_fk_name(name))
        links == {<<"self", link_for_relationship(
                        prefix, japi_resource_url_component, resource_id, name)>>,
                  <<"related", link_for_related(
                        prefix, japi_resource_url_component, resource_id, name)>>}
    IN IF related_resource_id = None
       THEN RelValue("datanull", "", "", links)
       ELSE RelValue("ident", related_resource_type,
                     Str(related_resource_id), links)

\* Id.serialize
IdSerialize(m) == Str(FGet(m, mapped_pk_name))

\* the check both codec loops make on a relationship member after the
\* writability check: null on a non-nullable field, or a linkage whose type
\* is not the related class's (resource.py 804-813 and 878-887)
LinkageCheck(field, value) ==
    IF value.kind = "null"
    THEN IF ~field.nullable THEN "422" ELSE "ok"
    ELSE CASE value.kind = "nodata" -> "KeyError"
           [] value.kind = "datanull" -> "TypeError"
           [] value.kind = "datastr" -> "TypeError"
           [] OTHER -> IF value.type # related_resource_type
                       THEN "400" ELSE "ok"

\* ---------------------------------------------------- Resource.deserialize
\* Faulty variant of MissingRequired: the loop over the missing names raises
\* for none of them.
MissingRequired_Unchecked(fields, request_names) == {}

\* the attributes whose absence deserialize rejects
MissingRequired(fields, request_names) ==
    {m \in DOMAIN fields \ request_names :
        ~(fields[m].has_default \/ fields[m].nullable)}

\* the names of the request that the schema does not declare
Extra(fields, request_names) == request_names \ DOMAIN fields

\* the names of the request that the schema declares
Intersection(fields, request_names) == request_names \cap DOMAIN fields

\* Faulty variant of DeserializeAttribute: the writable_during check is left
\* out.
DeserializeAttribute_Unguarded(field, name, input_value, st) ==
    IF input_value = None /\ ~field.nullable THEN Raise(st, "422")
    ELSE AttributeDeserializeIntoObj(field, name, input_value, st)

\* one iteration of the attribute loop of deserialize
DeserializeAttribute(field, name, input_value, st) ==
    IF input_value = None /\ ~field.nullable THEN Raise(st, "422")
    ELSE IF "CREATE" \notin field.writable_during THEN Raise(st, "403")
    ELSE AttributeDeserializeIntoObj(field, name, input_value, st)

\* one iteration of the relationship loop of deserialize
DeserializeRelationship(field, name, input_value, st) ==
    IF "CREATE" \notin field.writable_during THEN Raise(st, "403")
    ELSE IF LinkageCheck(field, input_value) # "ok"
    THEN Raise(st, LinkageCheck(field, input_value))
    ELSE ToOneDeserializeIntoObj(field, name, input_value, st)

RECURSIVE DeserializeAttributes(_, _, _, _)
DeserializeAttributes(fields, input, order, st) ==
    IF order = <<>> \/ st.status # "ok" THEN st
    ELSE DeserializeAttributes(fields, input, Tail(order),
            DeserializeAttribute(fields[Head(order)], Head(order),
                                 input[Head(order)], st))

RECURSIVE DeserializeRelationships(_, _, _, _)
DeserializeRelationships(fields, input, order, st) ==
    IF order = <<>> \/ st.status # "ok" THEN st
    ELSE DeserializeRelationships(fields, input, Tail(order),
            DeserializeRelationship(fields[Head(order)], Head(order),
                                    input[Head(order)], st))

\* Resource.deserialize(input_dict), iterating the attributes in attr_order
\* and the relationships in rel_order
Deserialize(sch, input_dict, attr_order, rel_order) ==
    LET res == Running(NewModel, {})
        request_attributes == DOMAIN input_dict.attributes
        request_relationships == DOMAIN input_dict.relationships
    IN
    IF input_dict.type # japi_resource_type THEN Raise(res, "400")
    ELSE IF Extra(sch.attrs, request_attributes) # {} THEN Raise(res, "422")
    ELSE IF MissingRequired(sch.attrs, request_attributes) # {}
    THEN Raise(res, "422")
    ELSE LET after == DeserializeAttributes(sch.attrs, input_dict.attributes,
                                            attr_order, res)
    IN
    IF after.status # "ok" THEN after
    ELSE IF Extra(sch.rels, request_relationships) # {} THEN Raise(after, "422")
    ELSE IF MissingRequired(sch.rels, request_relationships) # {}
    THEN Raise(after, "422")
    ELSE DeserializeRelationships(sch.rels, input_dict.relationships,
                                  rel_order, after)

\* ------------------------------------------------ Resource.create_patch_dict
\* A patch dict; made is FALSE while none was produced.
PatchDict(attributes, relationships) ==
    [made |-> TRUE, attributes |-> attributes, relationships |-> relationships]
NoPatchDict == [made |-> FALSE, attributes |-> EmptyMap,
                relationships |-> EmptyMap]

\* The state create_patch_dict threads through its loops: the names it has
\* put into ret_attrs and ret_rels (their values are PatchAttributes and
\* PatchRelationships below).
Collecting == [status |-> "ok", names |-> {}]

\* Faulty variant of PatchAttribute: writability is tested against CREATE,
\* as deserialize does, instead of UPDATE.
PatchAttribute_CreateContext(field, name, value, st) ==
    IF "CREATE" \notin field.writable_during THEN Raise(st, "403")
    ELSE [st EXCEPT !.names = @ \cup {name}]

\* one iteration of the attribute loop of create_patch_dict
PatchAttribute(field, name, value, st) ==
    IF "UPDATE" \notin field.writable_during THEN Raise(st, "403")
    ELSE [st EXCEPT !.names = @ \cup {name}]

\* one iteration of the relationship loop of create_patch_dict
PatchRelationship(field, name, value, st) ==
    IF "UPDATE" \notin field.writable_during THEN Raise(st, "403")
    ELSE IF LinkageCheck(field, value) # "ok"
    THEN Raise(st, LinkageCheck(field, value))
    ELSE IF ToOneDeserialize(value).status # "ok"
    THEN Raise(st, ToOneDeserialize(value).status)
    ELSE [st EXCEPT !.names = @ \cup {name}]

RECURSIVE PatchAttributesLoop(_, _, _, _)
PatchAttributesLoop(fields, input, order, st) ==
    IF order = <<>> \/ st.status # "ok" THEN st
    ELSE PatchAttributesLoop(fields, input, Tail(order),
            PatchAttribute(fields[Head(order)], Head(order),
                           input[Head(order)], st))

RECURSIVE PatchRelationshipsLoop(_, _, _, _)
PatchRelationshipsLoop(fields, input, order, st) ==
    IF order = <<>> \/ st.status # "ok" THEN st
    ELSE PatchRelationshipsLoop(fields, input, Tail(order),
            PatchRelationship(fields[Head(order)], Head(order),
                              input[Head(order)], st))

\* Faulty variant of PatchAttributes: an entry for every attribute of the
\* resource class, None where the document has none.
PatchAttributes_AllFields(input, names) ==
    [n \in names \cup AttrNames |->
        IF n \in DOMAIN input THEN AttributeDeserialize(input[n]) ELSE None]

\* ret_attrs: field.deserialize(value) for every collected name
PatchAttributes(input, names) ==
    [n \in names |-> AttributeDeserialize(input[n])]

\* ret_rels: field.deserialize(value) for every collected name
PatchRelationships(input, names) ==
    [n \in names |-> ToOneDeserialize(input[n]).val]

\* Resource.create_patch_dict(resource_dict): [status, patch]
CreatePatchDict(sch, resource_dict, attr_order, rel_order) ==
    LET request_attributes == DOMAIN resource_dict.attributes
        request_relationships == DOMAIN resource_dict.relationships
        failed(error) == [status |-> error, patch |-> NoPatchDict]
    IN
    IF resource_dict.type # japi_resource_type THEN failed("400")
    ELSE IF Extra(sch.attrs, request_attributes) # {} THEN failed("422")
    ELSE LET attrs == PatchAttributesLoop(sch.attrs, resource_dict.attributes,
                                          attr_order, Collecting)
    IN
    IF attrs.status # "ok" THEN failed(attrs.status)
    ELSE IF Extra(sch.rels, request_relationships) # {} THEN failed("422")
    ELSE LET rels == PatchRelationshipsLoop(sch.rels,
                        resource_dict.relationships, rel_order, Collecting)
    IN
    IF rels.status # "ok" THEN failed(rels.status)
    ELSE [status |-> "ok",
          patch |-> PatchDict(
                PatchAttributes(resource_dict.attributes, attrs.names),
                PatchRelationships(resource_dict.relationships, rels.names))]

\* ------------------------------------------------- Resource.apply_patch_dict
\* isinstance(value, ToOneRelationship) for a value of a patch dict: the
\* values are keys or None, never field objects
IsToOneRelationship(value) == FALSE

\* one iteration of the attribute loop of apply_patch_dict
ApplyAttribute(field, name, value, st) ==
    FSet(field, mapped_attribute_name(name), name, value, st)

\* one iteration of the relationship loop of apply_patch_dict
ApplyRelationship(field, name, value, st) ==
    IF ~IsToOneRelationship(value) THEN Raise(st, "AssertionError")
    ELSE FSet(field, mapped_fk_name(name), name, value, st)

RECURSIVE ApplyAttributesLoop(_, _, _, _)
ApplyAttributesLoop(fields, values, order, st) ==
    IF order = <<>> \/ st.status # "ok" THEN st
    ELSE ApplyAttributesLoop(fields, values, Tail(order),
            ApplyAttribute(fields[Head(order)], Head(order),
                           values[Head(order)], st))

RECURSIVE ApplyRelationshipsLoop(_, _, _, _)
ApplyRelationshipsLoop(fields, values, order, st) ==
    IF order = <<>> \/ st.status # "ok" THEN st
    ELSE ApplyRelationshipsLoop(fields, values, Tail(order),
            ApplyRelationship(fields[Head(order)], Head(order),
                              values[Head(order)], st))

\* Resource.apply_patch_dict(patch_dict) on the record m
ApplyPatchDict(sch, m, patch, attr_order, rel_order) ==
    LET after == ApplyAttributesLoop(sch.attrs, patch.attributes, attr_order,
                                     Running(m, {}))
    IN IF after.status # "ok" THEN after
       ELSE ApplyRelationshipsLoop(sch.rels, patch.relationships, rel_order,
                                   after)

\* ------------------------------------------------------ Resource.serialize
\* The fields argument: unset is Python's None (no filter), names the list.
Fields(unset, names) == [unset |-> unset, names |-> names]
NoFilter == Fields(TRUE, {})

\* the requested wire names a filter may hold
FieldFilters ==
    {NoFilter} \cup
    {Fields(FALSE, F) : F \in SUBSET (AttrNames \cup RelNames \cup {ExtraName})}

\* Faulty variant of Selected: the field filter is ignored.
Selected_Unfiltered(names, fields) == names

\* the names of a wire-name map that serialize emits
Selected(names, fields) == {n \in names : fields.unset \/ n \in fields.names}

\* attributes_dict of serialize
SerializeAttributes(sch, m, fields) ==
    [n \in Selected(DOMAIN sch.attrs, fields) |-> AttributeSerialize(m, n)]

\* relationships_dict of serialize
SerializeRelationships(sch, m, fields, prefix) ==
    [n \in Selected(DOMAIN sch.rels, fields) |->
        ToOneSerialize(m, n, IdSerialize(m), prefix)]

\* Resource.serialize(link_prefix, fields) of the record m: an attributes or
\* relationships member is put into the result only if its dict is not empty
Serialize(sch, m, prefix, fields) ==
    LET id == IdSerialize(m)
        attributes_dict == SerializeAttributes(sch, m, fields)
        relationships_dict == SerializeRelationships(sch, m, fields, prefix)
    IN [type |-> japi_resource_type,
        id |-> id,
        links |-> {<<"self", link_for_resource(
                        prefix, japi_resource_url_component,
                        Str(FGet(m, mapped_pk_name)))>>},
        has_attributes |-> DOMAIN attributes_dict # {},
        attributes |-> attributes_dict,
        has_relationships |-> DOMAIN relationships_dict # {},
        relationships |-> relationships_dict]

\* ---------------------------------------------------- format validators
\* assert_resource_identifier_object for a linkage of the model: type and id
\* are strings
AssertResourceIdentifierObject(value) == "ok"

\* assert_to_one_resource_linkage on the data member
AssertToOneResourceLinkage(value) ==
    CASE value.kind = "datanull" -> "ok"
      [] value.kind = "ident" -> AssertResourceIdentifierObject(value)
      [] OTHER -> "400"

\* assert_relationship_object(d, to_one): "ok" or "400"
AssertRelationshipObject(value, to_one) ==
    CASE value.kind = "null" -> "400"
      [] value.kind = "nodata" -> "400"
      [] OTHER -> IF to_one THEN AssertToOneResourceLinkage(value) ELSE "ok"

\* assert_relationships_object
AssertRelationshipsObject(relationships) ==
    IF \E n \in DOMAIN relationships :
            AssertRelationshipObject(relationships[n], FALSE) # "ok"
    THEN "400" ELSE "ok"

\* assert_resource_object on a document of the model: type and id are
\* strings, only the relationships can be malformed
AssertResourceObject(d) == AssertRelationshipsObject(d.relationships)

\* ------------------------------------------ format validators with pointers
\* JSON values as the validators see them: a string, a number, null, a list,
\* or an object with its members
JStr == [t |-> "str"]

JNum == [t |-> "num"]

JNull == [t |-> "null"]

JList(items) == [t |-> "list", items |-> items]

JObj(members) == [t |-> "obj", m |-> members]

\* isinstance(d, dict), isinstance(d, str), isinstance(d, list), d is None
IsDict(d) == d.t = "obj"

IsStr(d) == d.t = "str"

IsList(d) == d.t = "list"

IsNone(d) == d.t = "null"

\* d.keys(), and "key in d"
KeysOf(d) == DOMAIN d.m

\* d.items(): the members in the order the document lists them
Items(d) == CHOOSE order \in Perms(KeysOf(d)) : TRUE

\* str(i) of a list index
IndexStr(i) == <<"0", "1", "2">>[i + 1]

\* source_pointer + key + "/"
Sub(source_pointer, key) == source_pointer \o <<key, "/">>

\* a validator returns None, or raises BadRequest with a source pointer
Valid == [status |-> "ok"]

BadRequest(source_pointer) ==
    [status |-> "400", source_pointer |-> source_pointer]

\* the first BadRequest of a sequence of checks, as statements in sequence
\* raise
FirstRaised(checks) ==
    IF \E i \in DOMAIN checks : checks[i] # Valid
    THEN checks[CHOOSE i \in DOMAIN checks :
                    /\ checks[i] # Valid
                    /\ \A j \in 1..(i - 1) : checks[j] = Valid]
    ELSE Valid

\* assert_meta_object
assert_meta_object(d, source_pointer) ==
    IF ~IsDict(d) THEN BadRequest(source_pointer) ELSE Valid

\* assert_attributes_object
assert_attributes_object(d, source_pointer) ==
    IF ~IsDict(d) THEN BadRequest(source_pointer) ELSE Valid

\* assert_link
assert_link(d, source_pointer) ==
    IF IsStr(d) THEN Valid
    ELSE IF IsDict(d)
    THEN IF KeysOf(d) = {} THEN BadRequest(source_pointer)
         ELSE IF ~(KeysOf(d) \subseteq {"href", "meta"})
         THEN BadRequest(source_pointer)
         ELSE IF "href" \in KeysOf(d) /\ ~IsStr(d.m["href"])
         THEN BadRequest(Sub(source_pointer, "href"))
         ELSE IF "meta" \in KeysOf(d)
         THEN assert_meta_object(d.m["meta"], Sub(source_pointer, "meta"))
         ELSE Valid
    ELSE BadRequest(source_pointer)

\* assert_links_object
assert_links_object(d, source_pointer) ==
    IF ~IsDict(d) THEN BadRequest(source_pointer)
    ELSE FirstRaised([i \in DOMAIN Items(d) |->
            assert_link(d.m[Items(d)[i]], Sub(source_pointer, Items(d)[i]))])

\* assert_resource_identifier_object
assert_resource_identifier_object(d, source_pointer) ==
    IF ~IsDict(d) THEN BadRequest(source_pointer)
    ELSE IF ~(KeysOf(d) \subseteq {"id", "type", "meta"})
    THEN BadRequest(source_pointer)
    ELSE FirstRaised(<<
        IF "meta" \in KeysOf(d)
        THEN assert_meta_object(d.m["meta"], Sub(source_pointer, "meta"))
        ELSE Valid,
        IF "type" \notin KeysOf(d) THEN BadRequest(source_pointer)
        ELSE IF ~IsStr(d.m["type"])
        THEN BadRequest(Sub(source_pointer, "type"))
        ELSE Valid,
        IF "id" \notin KeysOf(d) THEN BadRequest(source_pointer)
        ELSE IF ~IsStr(d.m["id"])
        THEN BadRequest(Sub(source_pointer, "id"))
        ELSE Valid >>)

\* assert_to_one_resource_linkage
assert_to_one_resource_linkage(d, source_pointer) ==
    IF IsNone(d) THEN Valid
    ELSE IF IsDict(d)
    THEN assert_resource_identifier_object(d, source_pointer)
    ELSE BadRequest(source_pointer)

\* assert_to_many_resource_linkage
assert_to_many_resource_linkage(d, source_pointer) ==
    IF IsList(d)
    THEN FirstRaised([i \in DOMAIN d.items |->
            assert_resource_identifier_object(
                d.items[i], Sub(source_pointer, IndexStr(i - 1)))])
    ELSE BadRequest(source_pointer)

\* the data member of a relationship object: each requested discipline is
\* tried, the exception of the later failing one is raised
assert_data_member(data, source_pointer, to_many, to_one) ==
    LET one == IF to_one
               THEN assert_to_one_resource_linkage(data, source_pointer)
               ELSE Valid
        many == IF to_many
                THEN assert_to_many_resource_linkage(data, source_pointer)
                ELSE Valid
    IN  IF many # Valid THEN many ELSE one

\* assert_relationship_object
assert_relationship_object(d, source_pointer, to_many, to_one) ==
    IF ~IsDict(d) THEN BadRequest(source_pointer)
    ELSE IF KeysOf(d) = {} THEN BadRequest(source_pointer)
    ELSE IF ~(KeysOf(d) \subseteq {"links", "data", "meta"})
    THEN BadRequest(source_pointer)
    ELSE FirstRaised(<<
        IF "links" \in KeysOf(d)
        THEN assert_links_object(d.m["links"], Sub(source_pointer, "links"))
        ELSE Valid,
        IF "meta" \in KeysOf(d)
        THEN assert_meta_object(d.m["meta"], Sub(source_pointer, "meta"))
        ELSE Valid,
        IF "data" \in KeysOf(d)
        THEN assert_data_member(d.m["data"], Sub(source_pointer, "data"),
                                to_many, to_one)
        ELSE BadRequest(source_pointer) >>)

\* the pointer assert_relationships_object hands to the validator of member
\* key without the key
MemberPointer_Keyless(source_pointer, key) == source_pointer

\* the pointer assert_relationships_object hands to the validator of member
\* key
MemberPointer(source_pointer, key) == Sub(source_pointer, key)

\* assert_relationships_object
assert_relationships_object(d, source_pointer) ==
    IF ~IsDict(d) THEN BadRequest(source_pointer)
    ELSE FirstRaised([i \in DOMAIN Items(d) |->
            assert_relationship_object(
                d.m[Items(d)[i]], MemberPointer(source_pointer, Items(d)[i]),
                FALSE, FALSE)])

\* assert_resource_object
assert_resource_object(d, id_required, source_pointer) ==
    IF ~IsDict(d) THEN BadRequest(source_pointer)
    ELSE IF ~(KeysOf(d) \subseteq
                {"id", "type", "attributes", "relationships", "links", "meta"})
    THEN BadRequest(source_pointer)
    ELSE FirstRaised(<<
        IF "type" \notin KeysOf(d) THEN BadRequest(source_pointer)
        ELSE IF ~IsStr(d.m["type"])
        THEN BadRequest(Sub(source_pointer, "type"))
        ELSE Valid,
        IF id_required /\ "id" \notin KeysOf(d)
        THEN BadRequest(source_pointer)
        ELSE IF "id" \in KeysOf(d) /\ ~IsStr(d.m["id"])
        THEN BadRequest(Sub(source_pointer, "id"))
        ELSE Valid,
        IF "attributes" \in KeysOf(d)
        THEN assert_attributes_object(d.m["attributes"],
                                      Sub(source_pointer, "attributes"))
        ELSE Valid,
        IF "relationships" \in KeysOf(d)
        THEN assert_relationships_object(d.m["relationships"],
                                         Sub(source_pointer, "relationships"))
        ELSE Valid,
        IF "links" \in KeysOf(d)
        THEN assert_links_object(d.m["links"], Sub(source_pointer, "links"))
        ELSE Valid,
        IF "meta" \in KeysOf(d)
        THEN assert_meta_object(d.m["meta"], Sub(source_pointer, "meta"))
        ELSE Valid >>)

\* ------------------------------------------------ inputs of the validators
\* a member that the object does not have
Absent == [t |-> "absent"]

\* the object whose members are the fields of f that are not Absent
Build(f) == JObj([k \in {k \in DOMAIN f : f[k] # Absent} |-> f[k]])

MetaValues == {JStr, JObj(EmptyMap)}

LinkValues ==
    {JStr, JNum, JObj(EmptyMap)}
    \cup {Build([href |-> h, meta |-> m, bogus |-> Absent]) :
            h \in {Absent, JStr, JNum}, m \in {Absent} \cup MetaValues}
    \cup {Build([href |-> JStr, meta |-> Absent, bogus |-> JStr])}

LinksValues ==
    {JStr, JObj(EmptyMap)} \cup {JObj([k \in {"self"} |-> l]) : l \in LinkValues}

IdentifierValues ==
    {JStr}
    \cup {Build([type |-> t, id |-> i, meta |-> m, bogus |-> Absent]) :
            t \in {Absent, JStr, JNum}, i \in {Absent, JStr, JNum},
            m \in {Absent} \cup MetaValues}
    \cup {Build([type |-> JStr, id |-> JStr, meta |-> Absent, bogus |-> JStr])}

GoodIdentifier ==
    Build([type |-> JStr, id |-> JStr, meta |-> Absent, bogus |-> Absent])

BadIdentifier ==
    Build([type |-> JStr, id |-> JNum, meta |-> Absent, bogus |-> Absent])

DataValues ==
    {JNull, JStr, GoodIdentifier, BadIdentifier,
     JList(<<>>), JList(<<GoodIdentifier>>), JList(<<GoodIdentifier, BadIdentifier>>)}

\* relationship objects: any subset of data, links, meta and an undeclared
\* member, with well-formed and malformed values
RelationshipValues ==
    {JStr}
    \cup {Build(f) : f \in [data : {Absent} \cup DataValues,
                           links : {Absent, JStr, JObj(EmptyMap),
                                    JObj([k \in {"self"} |-> JNum])},
                           meta : {Absent} \cup MetaValues,
                           bogus : {Absent, JStr}]}

\* the relationship objects a resource object of the model carries
MemberRelationshipValues ==
    {JStr}
    \cup {Build(f) : f \in [data : {Absent, JNull, GoodIdentifier},
                           links : {Absent, JObj(EmptyMap),
                                    JObj([k \in {"self"} |-> JNum])},
                           meta : {Absent, JStr},
                           bogus : {Absent}]}

RelationshipsValues ==
    {JStr, JObj(EmptyMap)}
    \cup {JObj([k \in {"author"} |-> r]) : r \in MemberRelationshipValues}

ResourceObjectValues ==
    {JStr}
    \cup {Build(f) : f \in [id : {Absent, JStr, JNum},
                           type : {Absent, JStr, JNum},
                           attributes : {Absent, JStr, JObj(EmptyMap)},
                           relationships : {Absent} \cup RelationshipsValues,
                           links : {Absent} \cup LinksValues,
                           meta : {Absent} \cup MetaValues,
                           bogus : {Absent, JStr}]}

\* the pointers the callers pass: the default "/", and "/data/" of the
\* handlers
SourcePointers == {<<"/">>, <<"/data/">>}

\* ------------------------------------------------------------------ state
VARIABLES
    schema,        \* the wire-name maps of the registered resource class
    model,         \* the stored record as the request's session sees it
    db,            \* the stored record as last committed
    pc,            \* which call has completed
    doc,           \* the resource object of the request
    relationship,  \* the relationship a relationship request addresses
    body,          \* the relationship object of a relationship request
    fields,        \* the field filter given to serialize
    status,        \* how the call ended: "ok" or the exception
    new_model,     \* the record deserialize was writing into
    patch_dict,    \* what create_patch_dict returned
    fset_log,      \* wire names whose setter the call invoked
    response,      \* what serialize returned
    rt_status,     \* how deserializing the serialized record ended
    rt_model,      \* the record that second deserialize was writing into
    call,          \* a call of a validator or request utility: name, arguments
    ret,           \* what that call returned or raised
    paginator,     \* the NumberSize object of the request
    classes,       \* the resource classes ResourceMeta has initialised
    heap,          \* the field objects, by identity
    mutated,       \* a field object has been changed after registration
    request,       \* the request handle_request is handling
    session,       \* the session of that request
    api_pc,        \* where handle_request is
    api_response   \* the response handle_request returns

\* the variables of the validator, query and pagination calls
util_vars == <<call, ret, paginator>>

\* the variables of class creation
registry_vars == <<classes, heap, mutated>>

\* the variables of FlaskAPI.handle_request
api_vars == <<request, session, api_pc, api_response>>

vars == <<schema, model, db, pc, doc, relationship, body, fields, status,
          new_model, patch_dict, fset_log, response, rt_status, rt_model,
          util_vars, registry_vars, api_vars>>

\* no utility call has been made, nothing has been returned, no paginator
\* has been built
NoCall == [fn |-> "none"]

NoReturn == [status |-> "none"]

NoPaginator == [built |-> FALSE]

NoBody == RelValue("null", "", "", {})

\* no class has been created
RegistryIdle ==
    /\ classes = <<>>
    /\ heap = <<>>
    /\ mutated = FALSE

\* no request has arrived
NoRequest == [method |-> "none"]
NoSession == [opened |-> FALSE]
NoResponse == [status |-> 0]

ApiIdle ==
    /\ request = NoRequest
    /\ session = NoSession
    /\ api_pc = "idle"
    /\ api_response = NoResponse

Init ==
    /\ RegistryIdle
    /\ ApiIdle
    /\ schema \in Schemas
    /\ model = StoredModel
    /\ db = StoredModel
    /\ pc = "idle"
    /\ doc = NoDocument
    /\ relationship = ""
    /\ body = NoBody
    /\ fields = NoFilter
    /\ status = "ok"
    /\ new_model = NewModel
    /\ patch_dict = NoPatchDict
    /\ fset_log = {}
    /\ response = NoDocument
    /\ rt_status = "ok"
    /\ rt_model = NewModel
    /\ call = NoCall
    /\ ret = NoReturn
    /\ paginator = NoPaginator

\* ---------------------------------------------------------------- actions
\* A caller runs Resource.deserialize on a resource object.
DeserializeCall ==
    /\ pc = "idle"
    /\ \E d \in InputDocuments :
       \E attr_order \in Perms(Intersection(schema.attrs, DOMAIN d.attributes)),
          rel_order \in Perms(Intersection(schema.rels, DOMAIN d.relationships)) :
          LET r == Deserialize(schema, d, attr_order, rel_order) IN
          /\ doc' = d
          /\ status' = r.status
          /\ new_model' = r.model
          /\ fset_log' = r.log
    /\ pc' = "deserialized"
    /\ UNCHANGED <<util_vars, registry_vars, api_vars>>
    /\ UNCHANGED <<schema, model, db, relationship, body, fields, patch_dict,
                   response, rt_status, rt_model>>

\* The resource that deserialize returned is serialized.
SerializeCreated ==
    /\ pc = "deserialized"
    /\ status = "ok"
    /\ \E f \in FieldFilters :
          /\ fields' = f
          /\ response' = Serialize(schema, new_model, link_prefix, f)
    /\ pc' = "serialized"
    /\ UNCHANGED <<util_vars, registry_vars, api_vars>>
    /\ UNCHANGED <<schema, model, db, doc, relationship, body, status,
                   new_model, patch_dict, fset_log, rt_status, rt_model>>

\* The unfiltered serialization is given to Resource.deserialize again.
DeserializeAgain ==
    /\ pc = "serialized"
    /\ fields.unset
    /\ \E attr_order \in Perms(Intersection(schema.attrs,
                                            DOMAIN response.attributes)),
          rel_order \in Perms(Intersection(schema.rels,
                                           DOMAIN response.relationships)) :
          LET r == Deserialize(schema, response, attr_order, rel_order) IN
          /\ rt_status' = r.status
          /\ rt_model' = r.model
    /\ pc' = "roundtripped"
    /\ UNCHANGED <<util_vars, registry_vars, api_vars>>
    /\ UNCHANGED <<schema, model, db, doc, relationship, body, fields, status,
                   new_model, patch_dict, fset_log, response>>

\* ResourceHandler.patch: validate the body, create the patch dict, query the
\* record, apply the patch dict, serialize, commit.
ResourceHandlerPatch ==
    /\ pc = "idle"
    /\ \E d \in InputDocuments :
       \E attr_order \in Perms(Intersection(schema.attrs, DOMAIN d.attributes)),
          rel_order \in Perms(Intersection(schema.rels, DOMAIN d.relationships)) :
          LET created == CreatePatchDict(schema, d, attr_order, rel_order)
              applied == ApplyPatchDict(schema, model, created.patch,
                                        attr_order, rel_order)
          IN
          /\ doc' = d
          /\ IF AssertResourceObject(d) # "ok"
             THEN /\ status' = AssertResourceObject(d)
                  /\ UNCHANGED <<patch_dict, model, db, fset_log, response>>
             ELSE IF created.status # "ok"
             THEN /\ status' = created.status
                  /\ UNCHANGED <<patch_dict, model, db, fset_log, response>>
             ELSE /\ patch_dict' = created.patch
                  /\ status' = applied.status
                  /\ model' = applied.model
                  /\ fset_log' = applied.log
                  /\ IF applied.status # "ok"
                     THEN UNCHANGED <<db, response>>
                     ELSE /\ response' = Serialize(schema, applied.model,
                                                   link_prefix, NoFilter)
                          /\ db' = applied.model
    /\ pc' = "patched"
    /\ UNCHANGED <<util_vars, registry_vars, api_vars>>
    /\ UNCHANGED <<schema, relationship, body, fields, new_model, rt_status,
                   rt_model>>

\* ToOneRelationshipHandler.patch: validate the body, query the record, write
\* the linkage into it, commit.
ToOneRelationshipHandlerPatch ==
    /\ pc = "idle"
    /\ \E name \in RelNames, b \in InputRelValues :
          LET written == ToOneDeserializeIntoObj(schema.rels[name], name, b,
                                                 Running(model, {}))
          IN
          /\ relationship' = name
          /\ body' = b
          /\ IF AssertRelationshipObject(b, TRUE) # "ok"
             THEN /\ status' = AssertRelationshipObject(b, TRUE)
                  /\ UNCHANGED <<model, db, fset_log>>
             ELSE /\ status' = written.status
                  /\ model' = written.model
                  /\ fset_log' = written.log
                  /\ db' = IF written.status = "ok" THEN written.model ELSE db
    /\ pc' = "rel_patched"
    /\ UNCHANGED <<util_vars, registry_vars, api_vars>>
    /\ UNCHANGED <<schema, doc, fields, new_model, patch_dict, response,
                   rt_status, rt_model>>

\* The stored record is serialized with a field filter, as a GET does.
SerializeStored ==
    /\ pc = "idle"
    /\ \E f \in FieldFilters :
          /\ fields' = f
          /\ response' = Serialize(schema, model, link_prefix, f)
    /\ pc' = "got"
    /\ UNCHANGED <<util_vars, registry_vars, api_vars>>
    /\ UNCHANGED <<schema, model, db, doc, relationship, body, status,
                   new_model, patch_dict, fset_log, rt_status, rt_model>>

Next ==
    \/ DeserializeCall
    \/ SerializeCreated
    \/ DeserializeAgain
    \/ ResourceHandlerPatch
    \/ ToOneRelationshipHandlerPatch
    \/ SerializeStored

Spec == Init /\ [][Next]_vars

\* ------------------------------------------------- the format validators
\* the variables of the codec and the handlers
codec_vars == <<schema, model, db, pc, doc, relationship, body, fields, status,
                new_model, patch_dict, fset_log, response, rt_status, rt_model>>

\* no request is being handled: the codec's variables as Init leaves them,
\* for one registered resource class
CodecIdle ==
    /\ schema = CHOOSE s \in Schemas : TRUE
    /\ model = StoredModel
    /\ db = StoredModel
    /\ pc = "idle"
    /\ doc = NoDocument
    /\ relationship = ""
    /\ body = NoBody
    /\ fields = NoFilter
    /\ status = "ok"
    /\ new_model = NewModel
    /\ patch_dict = NoPatchDict
    /\ fset_log = {}
    /\ response = NoDocument
    /\ rt_status = "ok"
    /\ rt_model = NewModel

\* the calls of the validators: a resource object with the id required or
\* not, and a relationship object under each combination of disciplines
ValidatorCalls ==
    [fn : {"assert_resource_object"}, d : ResourceObjectValues,
     id_required : BOOLEAN, source_pointer : SourcePointers]
    \cup
    [fn : {"assert_relationship_object"}, d : RelationshipValues,
     to_many : BOOLEAN, to_one : BOOLEAN, source_pointer : SourcePointers]

InitValidators ==
    /\ CodecIdle
    /\ RegistryIdle
    /\ ApiIdle
    /\ call \in ValidatorCalls
    /\ ret = NoReturn
    /\ paginator = NoPaginator

\* assert_resource_object is applied to the document
AssertResourceObjectCall ==
    /\ ret = NoReturn
    /\ call.fn = "assert_resource_object"
    /\ ret' = assert_resource_object(call.d, call.id_required,
                                     call.source_pointer)
    /\ UNCHANGED <<codec_vars, registry_vars, api_vars, call, paginator>>

\* assert_relationship_object is applied to the document
AssertRelationshipObjectCall ==
    /\ ret = NoReturn
    /\ call.fn = "assert_relationship_object"
    /\ ret' = assert_relationship_object(call.d, call.source_pointer,
                                         call.to_many, call.to_one)
    /\ UNCHANGED <<codec_vars, registry_vars, api_vars, call, paginator>>

NextValidators ==
    \/ AssertResourceObjectCall
    \/ AssertRelationshipObjectCall

SpecValidators == InitValidators /\ [][NextValidators]_vars

\* ---------------------------------------------------- request utilities
\* A string is the sequence of its characters; a run of ordinary characters
\* that no utility looks into ("title", "author_id") is one element.
MaxStrLen == 5

\* str[i] with Python's index from 0
CharAt(str, i) == str[i + 1]

\* the loop body of split_str_on_comma if it appended the current character,
\* never the next
RECURSIVE SplitLoop_NoSkip(_, _, _, _, _)
SplitLoop_NoSkip(str, i, is_escaped, result, sub_str) ==
    IF i >= Len(str) THEN [result |-> result, sub_str |-> sub_str]
    ELSE IF CharAt(str, i) = "," /\ ~is_escaped
    THEN SplitLoop_NoSkip(str, i + 1, is_escaped,
                   IF sub_str # <<>> THEN Append(result, sub_str) ELSE result,
                   <<>>)
    ELSE IF is_escaped
    THEN SplitLoop_NoSkip(str, i + 1, FALSE, result, sub_str)
    ELSE SplitLoop_NoSkip(str, i + 1, CharAt(str, i) = "\\", result,
                          Append(sub_str, CharAt(str, i)))

\* one pass of the loop body of split_str_on_comma at index i; the loop
\* variable is reassigned by range() however the body changed it
RECURSIVE SplitLoop(_, _, _, _, _)
SplitLoop(str, i, is_escaped, result, sub_str) ==
    IF i >= Len(str) THEN [result |-> result, sub_str |-> sub_str]
    ELSE IF CharAt(str, i) = "," /\ ~is_escaped
    THEN SplitLoop(str, i + 1, is_escaped,
                   IF sub_str # <<>> THEN Append(result, sub_str) ELSE result,
                   <<>>)
    ELSE IF is_escaped
    THEN SplitLoop(str, i + 1, FALSE, result, sub_str)
    ELSE LET backslash == CharAt(str, i) = "\\"
             j == IF backslash /\ i < Len(str) - 1 THEN i + 1 ELSE i
         IN  SplitLoop(str, i + 1, backslash, result,
                       Append(sub_str, CharAt(str, j)))

\* split_str_on_comma
split_str_on_comma(str) ==
    LET end == SplitLoop(str, 0, FALSE, <<>>, <<>>) IN
    IF end.sub_str # <<>> THEN Append(end.result, end.sub_str)
    ELSE end.result

\* a ToOneRelationship as a class attribute: the name it is assigned to, its
\* wire name and its foreign key
ToOneField(python_name, japi_name, fk_name) ==
    [kind |-> "ToOneRelationship", python_name |-> python_name,
     japi_name |-> japi_name, mapped_fk_name |-> fk_name]

\* an Attribute as a class attribute
AttributeField(python_name, japi_name) ==
    [kind |-> "Attribute", python_name |-> python_name,
     japi_name |-> japi_name]

\* what ResourceMeta leaves on a resource class: the class attributes by
\* Python name, and the relationships by wire name
ResourceClass(class_fields) ==
    [attributes |->
        [n \in {f.python_name : f \in class_fields} |->
            CHOOSE f \in class_fields : f.python_name = n],
     _rels_by_japi_name |->
        [n \in {f.japi_name : f \in {g \in class_fields :
                                        g.kind = "ToOneRelationship"}} |->
            CHOOSE f \in class_fields :
                f.kind = "ToOneRelationship" /\ f.japi_name = n]]

\* title = Attribute(); author = ToOneRelationship("author_id", Person)
PlainClass ==
    ResourceClass({AttributeField("title", "title"),
                   ToOneField("author", "author", "author_id")})

\* title = Attribute()
\* author = ToOneRelationship("author_id", Person, japi_name="writer")
RenamedClass ==
    ResourceClass({AttributeField("title", "title"),
                   ToOneField("author", "writer", "author_id")})

ResourceClasses == {PlainClass, RenamedClass}

\* val in resource_class._rels_by_japi_name, for a string val
InRels(resource_class, val) ==
    \E n \in DOMAIN resource_class._rels_by_japi_name : val = <<n>>

\* getattr(resource_class, val).mapped_fk_name: the class attribute of that
\* Python name; AttributeError if there is none or it has no foreign key
GetattrMappedFkName(resource_class, val) ==
    IF \E n \in DOMAIN resource_class.attributes :
            /\ val = <<n>>
            /\ resource_class.attributes[n].kind = "ToOneRelationship"
    THEN [status |-> "ok",
          value |-> <<resource_class.attributes[val[1]].mapped_fk_name>>]
    ELSE [status |-> "AttributeError", value |-> <<>>]

\* the foreign key of the relationship registered under the wire name val
RegisteredFkName(resource_class, val) ==
    [status |-> "ok",
     value |-> <<resource_class._rels_by_japi_name[val[1]].mapped_fk_name>>]

\* a request parameter name: "sort", or a family with its bracketed argument
BracketKey(family, arg) == <<family, "[">> \o arg \o <<"]">>

\* re.fullmatch(r"family\[([A-z0-9_]+)\]", key)
FullMatch(family, key) ==
    /\ Len(key) >= 4
    /\ key[1] = family
    /\ key[2] = "["
    /\ key[Len(key)] = "]"
    /\ \A i \in 3..(Len(key) - 1) : key[i] \notin {"[", "]", " ", ",", "%"}

\* val.strip()
RECURSIVE LStrip(_)
LStrip(val) ==
    IF val # <<>> /\ Head(val) = " " THEN LStrip(Tail(val)) ELSE val

RECURSIVE RStrip(_)
RStrip(val) ==
    IF val # <<>> /\ val[Len(val)] = " "
    THEN RStrip(SubSeq(val, 1, Len(val) - 1)) ELSE val

Strip(val) == RStrip(LStrip(val))

\* a list or None
NoneList == [none |-> TRUE, items |-> <<>>]

ListOf(items) == [none |-> FALSE, items |-> items]

\* the loop of get_sparse_fields over the columns of one parameter
RECURSIVE SparseColumns(_, _, _)
SparseColumns(resource_class, columns, acc) ==
    IF columns = <<>> \/ acc.status # "ok" THEN acc
    ELSE LET val == Strip(Head(columns))
             fk == GetattrMappedFkName(resource_class, val)
         IN  IF val = <<>>
             THEN SparseColumns(resource_class, Tail(columns), acc)
             ELSE IF InRels(resource_class, val)
             THEN IF fk.status # "ok"
                  THEN [acc EXCEPT !.status = fk.status]
                  ELSE SparseColumns(resource_class, Tail(columns),
                        [acc EXCEPT
                            !.for_query = ListOf(Append(@.items, fk.value)),
                            !.to_return = ListOf(Append(@.items, val))])
             ELSE SparseColumns(resource_class, Tail(columns),
                        [acc EXCEPT
                            !.for_query = ListOf(Append(@.items, val)),
                            !.to_return = ListOf(Append(@.items, val))])

\* the loop of get_sparse_fields over the parameters
RECURSIVE SparseArgs(_, _, _)
SparseArgs(resource_class, args, acc) ==
    IF args = <<>> \/ acc.status # "ok" THEN acc
    ELSE LET key == Head(args)[1]
             value == Head(args)[2]
         IN  IF FullMatch("fields", key)
             THEN SparseArgs(resource_class, Tail(args),
                    SparseColumns(resource_class, split_str_on_comma(value),
                        [acc EXCEPT !.to_return = ListOf(@.items),
                                    !.for_query = ListOf(@.items)]))
             ELSE SparseArgs(resource_class, Tail(args), acc)

\* get_sparse_fields: (sparse_fields_to_return, sparse_fields_for_query)
get_sparse_fields(args, resource_class) ==
    SparseArgs(resource_class, args,
               [status |-> "ok", to_return |-> NoneList,
                for_query |-> NoneList])

\* args.get(name): the first value under that name, or None
RECURSIVE ArgsGet(_, _)
ArgsGet(args, name) ==
    IF args = <<>> THEN [none |-> TRUE, value |-> <<>>]
    ELSE IF Head(args)[1] = name
    THEN [none |-> FALSE, value |-> Head(args)[2]]
    ELSE ArgsGet(Tail(args), name)

\* value.replace(old, new)
RECURSIVE Replace(_, _, _)
Replace(value, old, new) ==
    IF value = <<>> THEN IF old = <<>> THEN new ELSE <<>>
    ELSE IF old = <<>>
    THEN new \o <<Head(value)>> \o Replace(Tail(value), old, new)
    ELSE IF Len(value) >= Len(old) /\ SubSeq(value, 1, Len(old)) = old
    THEN new \o Replace(SubSeq(value, Len(old) + 1, Len(value)), old, new)
    ELSE <<Head(value)>> \o Replace(Tail(value), old, new)

\* the loop of get_order_by_fields over order_by, from index
RECURSIVE OrderByLoop(_, _, _)
OrderByLoop(resource_class, order_by, index) ==
    IF index > Len(order_by) THEN [status |-> "ok", order_by |-> order_by]
    ELSE LET value == order_by[index]
             field_name == Tail(value)
             fk == IF InRels(resource_class, value)
                   THEN GetattrMappedFkName(resource_class, value)
                   ELSE GetattrMappedFkName(resource_class, field_name)
         IN  IF ~InRels(resource_class, value)
             THEN IF Head(value) = "-" /\ InRels(resource_class, field_name)
                  THEN IF fk.status # "ok"
                       THEN [status |-> fk.status, order_by |-> order_by]
                       ELSE OrderByLoop(resource_class,
                                [order_by EXCEPT ![index] =
                                    Replace(value, field_name, fk.value)],
                                index + 1)
                  ELSE OrderByLoop(resource_class, order_by, index + 1)
             ELSE IF fk.status # "ok"
                  THEN [status |-> fk.status, order_by |-> order_by]
                  ELSE OrderByLoop(resource_class,
                            [order_by EXCEPT ![index] = fk.value], index + 1)

\* get_order_by_fields
get_order_by_fields(args, resource_class) ==
    LET sort_value == ArgsGet(args, <<"sort">>)
        order_by == IF ~sort_value.none /\ sort_value.value # <<>>
                    THEN split_str_on_comma(sort_value.value) ELSE <<>>
    IN  OrderByLoop(resource_class, order_by, 1)

\* re.search('%', item)
ContainsPercent(item) == \E i \in DOMAIN item : item[i] = "%"

\* the term that get_filter makes of one item of a parameter
FilterTerm(key, item) ==
    [op |-> IF ContainsPercent(item) THEN "like" ELSE "==",
     field |-> key, value |-> item]

\* the or_dic that get_filter makes of one parameter
OrDic(key, columns) ==
    [or |-> [i \in DOMAIN columns |-> FilterTerm(key, columns[i])]]

\* the loop of get_filter over the parameters; filters is None or the list
\* of one {'and': [...]}
RECURSIVE FilterArgs(_, _, _)
FilterArgs(resource_class, args, acc) ==
    IF args = <<>> \/ acc.status # "ok" THEN acc
    ELSE LET bracketed == SubSeq(Head(args)[1], 3, Len(Head(args)[1]) - 1)
             fk == GetattrMappedFkName(resource_class, bracketed)
             key == IF InRels(resource_class, bracketed)
                    THEN fk.value ELSE bracketed
             columns == split_str_on_comma(Head(args)[2])
         IN  IF ~FullMatch("filter", Head(args)[1])
             THEN FilterArgs(resource_class, Tail(args), acc)
             ELSE IF InRels(resource_class, bracketed) /\ fk.status # "ok"
             THEN [acc EXCEPT !.status = fk.status]
             ELSE IF columns = <<>>
             THEN FilterArgs(resource_class, Tail(args), acc)
             ELSE FilterArgs(resource_class, Tail(args),
                    [acc EXCEPT !.filters =
                        IF @.none
                        THEN ListOf(<<[and |-> <<OrDic(key, columns)>>]>>)
                        ELSE ListOf(<<[and |-> Append(@.items[1].and,
                                                     OrDic(key, columns))]>>)])

\* get_filter
get_filter(args, resource_class) ==
    FilterArgs(resource_class, args, [status |-> "ok", filters |-> NoneList])

\* ------------------------------------------- inputs of the request utilities
\* the strings over comma, backslash and an ordinary character, to a length
RECURSIVE StringsUpTo(_, _)
StringsUpTo(alphabet, n) ==
    IF n = 0 THEN {<<>>}
    ELSE LET shorter == StringsUpTo(alphabet, n - 1) IN
         shorter \cup {Append(s, c) : s \in shorter, c \in alphabet}

\* the docstring's example: hello,world\,hello\\,again\\\,world
DocstringExample ==
    <<"hello", ",", "world", "\\", ",", "hello", "\\", "\\", ",",
      "again", "\\", "\\", "\\", ",", "world">>

SplitInputs == StringsUpTo({",", "\\", "a"}, MaxStrLen) \cup {DocstringExample}

\* e1 "," e2
Comma(e1, e2) == e1 \o <<",">> \o e2

\* values of fields[...]: one or two entries
SparseEntries ==
    {<<>>, <<" ">>, <<"title">>, <<"author">>, <<"writer">>,
     <<" ", "author", " ">>}

SparseValues == SparseEntries \cup {Comma(a, b) : a, b \in SparseEntries}

\* values of sort
SortEntries ==
    {<<>>, <<"title">>, <<"-", "title">>, <<"author">>, <<"-", "author">>,
     <<"writer">>, <<"-", "writer">>, <<"-">>}

SortValues == SortEntries \cup {Comma(a, b) : a, b \in SortEntries}

\* values of filter[...]
FilterEntries == {<<>>, <<"x">>, <<"%", "x">>, <<"y", "%">>}

FilterValues == FilterEntries \cup {Comma(a, b) : a, b \in FilterEntries}

FilterKeys ==
    {BracketKey("filter", <<n>>) : n \in {"title", "author", "writer"}}

\* the parameters of a request, in order, repeated names included
SparseArgsInputs ==
    LET params == ({BracketKey("fields", <<"articles">>)} \X SparseValues)
                  \cup {<<BracketKey("fields", <<>>), <<"title">>>>,
                        <<<<"sort">>, <<"title">>>>}
    IN  {<<>>} \cup {<<p>> : p \in params} \cup {<<p, q>> : p, q \in params}

SortArgsInputs ==
    LET params == {<<"sort">>} \X SortValues IN
    {<<>>, << <<BracketKey("fields", <<"articles">>), <<"title">>>> >>}
    \cup {<<p>> : p \in params}
    \cup {<<p, q>> : p \in params, q \in {<<<<"sort">>, <<"author">>>>}}

FilterArgsInputs ==
    LET params == (FilterKeys \X FilterValues)
                  \cup {<<<<"sort">>, <<"title">>>>}
    IN  {<<>>} \cup {<<p>> : p \in params} \cup {<<p, q>> : p, q \in params}

QueryCalls ==
    [fn : {"split_str_on_comma"}, str : SplitInputs]
    \cup [fn : {"get_sparse_fields"}, args : SparseArgsInputs,
          resource_class : ResourceClasses]
    \cup [fn : {"get_order_by_fields"}, args : SortArgsInputs,
          resource_class : ResourceClasses]
    \cup [fn : {"get_filter"}, args : FilterArgsInputs,
          resource_class : ResourceClasses]

InitQuery ==
    /\ CodecIdle
    /\ RegistryIdle
    /\ ApiIdle
    /\ call \in QueryCalls
    /\ ret = NoReturn
    /\ paginator = NoPaginator

\* split_str_on_comma is applied to the string
SplitStrOnCommaCall ==
    /\ ret = NoReturn
    /\ call.fn = "split_str_on_comma"
    /\ ret' = [status |-> "ok", result |-> split_str_on_comma(call.str)]
    /\ UNCHANGED <<codec_vars, registry_vars, api_vars, call, paginator>>

\* get_sparse_fields is applied to the parameters
GetSparseFieldsCall ==
    /\ ret = NoReturn
    /\ call.fn = "get_sparse_fields"
    /\ ret' = get_sparse_fields(call.args, call.resource_class)
    /\ UNCHANGED <<codec_vars, registry_vars, api_vars, call, paginator>>

\* get_order_by_fields is applied to the parameters
GetOrderByFieldsCall ==
    /\ ret = NoReturn
    /\ call.fn = "get_order_by_fields"
    /\ ret' = get_order_by_fields(call.args, call.resource_class)
    /\ UNCHANGED <<codec_vars, registry_vars, api_vars, call, paginator>>

\* get_filter is applied to the parameters
GetFilterCall ==
    /\ ret = NoReturn
    /\ call.fn = "get_filter"
    /\ ret' = get_filter(call.args, call.resource_class)
    /\ UNCHANGED <<codec_vars, registry_vars, api_vars, call, paginator>>

NextQuery ==
    \/ SplitStrOnCommaCall
    \/ GetSparseFieldsCall
    \/ GetOrderByFieldsCall
    \/ GetFilterCall

SpecQuery == InitQuery /\ [][NextQuery]_vars

\* --------------------------------------------------------------- pagination
DEFAULT_LIMIT == 25

MaxNumber == 4

MaxSize == 3

MaxTotal == 10

\* Python values of the page parameters: None, a string, an int
PyNone == [t |-> "none"]

PyStr(s) == [t |-> "str", s |-> s]

PyInt(n) == [t |-> "int", n |-> n]

\* the decimal numerals of 0, 1, 2, ...
Numerals ==
    <<"0", "1", "2", "3", "4", "5", "6", "7", "8", "9", "10", "11", "12",
      "13", "14", "15", "16", "17", "18", "19", "20", "21", "22", "23", "24",
      "25", "26">>

\* str(n) of an int n >= 0
StrOfInt(n) == Numerals[n + 1]

\* int(s): a numeral, a negated numeral, or ValueError
IntOfStr(s) ==
    IF \E i \in DOMAIN Numerals : Numerals[i] = s
    THEN [ok |-> TRUE,
          n |-> (CHOOSE i \in DOMAIN Numerals : Numerals[i] = s) - 1]
    ELSE IF s = "-1" THEN [ok |-> TRUE, n |-> 0 - 1]
    ELSE [ok |-> FALSE, n |-> 0]

\* bool(number) of `if number:`
Truthy(number) ==
    CASE number.t = "none" -> FALSE
      [] number.t = "str" -> number.s # ""
      [] number.t = "int" -> number.n # 0
      [] number.t = "dict" -> DOMAIN number.m # {}

\* check_number: the converted number, or BadRequest naming the parameter
check_number(number, name) ==
    IF ~Truthy(number) THEN [status |-> "ok", number |-> number]
    ELSE LET parsed == IF number.t = "int" THEN [ok |-> TRUE, n |-> number.n]
                       ELSE IntOfStr(number.s)
         IN  IF ~parsed.ok
             THEN [status |-> "400", source_parameter |-> name]
             ELSE IF parsed.n < 1
             THEN [status |-> "400", source_parameter |-> name]
             ELSE [status |-> "ok", number |-> PyInt(parsed.n)]

\* args.to_dict(): one value per name, the first of a repeated parameter
to_dict(args) == [k \in DOMAIN args |-> args[k][1]]

\* `x > 0` and `x >= 0` of the assertions: TypeError unless x is an int
Compare(x, holds) ==
    IF x.t # "int" THEN "TypeError"
    ELSE IF holds THEN "ok" ELSE "AssertionError"

\* NumberSize.__init__: the object, or the exception of its assertions
NumberSizeInit(link_prefix_, component, args, number, size, total_resources) ==
    LET checks == <<Compare(number, number.t = "int" /\ number.n > 0),
                    Compare(size, size.t = "int" /\ size.n > 0),
                    Compare(total_resources, total_resources.n >= 0)>>
    IN  IF \E i \in 1..3 : checks[i] # "ok"
        THEN [status |-> checks[CHOOSE i \in 1..3 :
                            /\ checks[i] # "ok"
                            /\ \A j \in 1..(i - 1) : checks[j] = "ok"],
              self |-> NoPaginator]
        ELSE [status |-> "ok",
              self |-> [built |-> TRUE,
                        _link_prefix |-> link_prefix_,
                        _japi_resource_url_component |-> component,
                        _query |-> to_dict(args),
                        number |-> number.n,
                        size |-> size.n,
                        total_resources |-> total_resources.n]]

\* request.query_args.get(name): the first value under the name, or None
QueryArgsGet(query_args, name) ==
    IF name \in DOMAIN query_args THEN PyStr(query_args[name][1]) ELSE PyNone

\* size = default_size if size == 0 else size
SizeOrDefault(size, default_size) ==
    IF size = PyInt(0) THEN PyInt(default_size) ELSE size

\* NumberSize.from_request
from_request(query_args, link_prefix_, component, total_resources) ==
    LET number == check_number(QueryArgsGet(query_args, "page[number]"),
                               "page[number]")
        size == check_number(QueryArgsGet(query_args, "page[size]"),
                             "page[size]")
    IN  IF number.status # "ok"
        THEN [status |-> "400", source_parameter |-> number.source_parameter,
              self |-> NoPaginator]
        ELSE IF size.status # "ok"
        THEN [status |-> "400", source_parameter |-> size.source_parameter,
              self |-> NoPaginator]
        ELSE NumberSizeInit(link_prefix_, component, query_args,
                            number.number,
                            SizeOrDefault(size.number, DEFAULT_LIMIT),
                            PyInt(total_resources))

\* math.floor(a / b) in place of math.ceil(a / b)
Ceil_Floor(a, b) == a \div b

\* math.ceil(a / b) for a >= 0, b > 0
Ceil(a, b) == IF a % b = 0 THEN a \div b ELSE (a \div b) + 1

\* NumberSize.last_page
last_page(self) == Ceil(self.total_resources, self.size)

\* NumberSize.limit
limit(self) == self.size

\* NumberSize.offset
offset(self) == (self.number - 1) * self.size

\* self._query.update({"page[size]": str(size), "page[number]": str(number)})
QueryUpdate(query, size, number) ==
    [k \in DOMAIN query \cup {"page[size]", "page[number]"} |->
        CASE k = "page[size]" -> StrOfInt(size)
          [] k = "page[number]" -> StrOfInt(number)
          [] OTHER -> query[k]]

\* BasePagination.page_link for page number: the link, made of the prefix,
\* the url component and the query that urlencode writes out
page_link(self, size, number) ==
    [link_prefix |-> self._link_prefix,
     japi_resource_url_component |-> self._japi_resource_url_component,
     query |-> QueryUpdate(self._query, size, number)]

\* whether json_links adds the prev link, with `>=` for `>`
HasPrev_FromFirstPage(self) == self.number >= 1

\* if self.number > 1
HasPrev(self) == self.number > 1

\* if self.number < self.last_page
HasNext(self) == self.number < last_page(self)

\* the names of the links json_links puts into d
LinkNames(self) ==
    {"self", "first", "last"}
    \cup (IF HasPrev(self) THEN {"prev"} ELSE {})
    \cup (IF HasNext(self) THEN {"next"} ELSE {})

\* the page number json_links gives to page_link for a link name
LinkedPage(self, name) ==
    CASE name = "self" -> self.number
      [] name = "first" -> 1
      [] name = "last" -> last_page(self)
      [] name = "prev" -> self.number - 1
      [] name = "next" -> self.number + 1

\* NumberSize.json_links: the dictionary d
json_links(self) ==
    [name \in LinkNames(self) |->
        page_link(self, self.size, LinkedPage(self, name))]

\* self._query after json_links: page_link has updated it once per link,
\* the last link made is next if there is one, else prev, else last
QueryAfterLinks(self) ==
    LET last_made == IF HasNext(self) THEN "next"
                     ELSE IF HasPrev(self) THEN "prev" ELSE "last"
    IN  QueryUpdate(self._query, self.size, LinkedPage(self, last_made))

\* NumberSize.json_meta
json_meta(self) == [k \in {"total-pages"} |-> last_page(self)]

\* ------------------------------------------------- inputs of the pagination
\* the strings a request may carry as page[number] or page[size]
PageNumberStrings ==
    {"", "0", "-1", "x"} \cup {StrOfInt(n) : n \in 1..MaxNumber}

PageSizeStrings ==
    {"", "0", "-1", "x"} \cup {StrOfInt(n) : n \in 1..MaxSize}

\* the query_args of a request, a MultiDict: each name with the values of
\* its occurrences in order. page[number] and page[size] are each absent or
\* one of the strings, sort is absent or given once, filter[title] is
\* absent, given once or given twice
QueryArgsInputs ==
    LET absent == <<>>
        choices == [number : {<<v>> : v \in PageNumberStrings} \cup {absent},
                    size : {<<v>> : v \in PageSizeStrings} \cup {absent},
                    sort : {<<"title">>, absent},
                    filter : {<<"x">>, <<"x", "y">>, absent}]
        values(c, k) == CASE k = "page[number]" -> c.number
                          [] k = "page[size]" -> c.size
                          [] k = "sort" -> c.sort
                          [] OTHER -> c.filter
        names == {"page[number]", "page[size]", "sort", "filter[title]"}
    IN  {[k \in {n \in names : values(c, n) # absent} |-> values(c, k)] :
            c \in choices}

PaginationCalls ==
    [fn : {"from_request"}, query_args : QueryArgsInputs,
     total_resources : 0..MaxTotal]
    \cup [fn : {"NumberSize"}, query_args : {[k \in {"sort"} |-> <<"title">>]},
          number : 0..MaxNumber, size : 0..MaxSize,
          total_resources : 0..MaxTotal]

InitPagination ==
    /\ CodecIdle
    /\ RegistryIdle
    /\ ApiIdle
    /\ call \in PaginationCalls
    /\ ret = NoReturn
    /\ paginator = NoPaginator

\* NumberSize.from_request builds the paginator from a request
FromRequestCall ==
    /\ ret = NoReturn
    /\ call.fn = "from_request"
    /\ LET made == from_request(call.query_args, link_prefix,
                                japi_resource_url_component,
                                call.total_resources)
       IN  /\ paginator' = made.self
           /\ ret' = [made EXCEPT !.self = "NumberSize"]
    /\ UNCHANGED <<codec_vars, registry_vars, api_vars, call>>

\* a caller constructs the paginator with given numbers
NumberSizeCall ==
    /\ ret = NoReturn
    /\ call.fn = "NumberSize"
    /\ LET made == NumberSizeInit(link_prefix, japi_resource_url_component,
                                  call.query_args, PyInt(call.number),
                                  PyInt(call.size),
                                  PyInt(call.total_resources))
       IN  /\ paginator' = made.self
           /\ ret' = [made EXCEPT !.self = "NumberSize"]
    /\ UNCHANGED <<codec_vars, registry_vars, api_vars, call>>

\* the handler asks the paginator for the links of the response
JsonLinksCall ==
    /\ paginator.built
    /\ ret' = [status |-> "ok", json_links |-> json_links(paginator)]
    /\ paginator' = [paginator EXCEPT !._query = QueryAfterLinks(paginator)]
    /\ UNCHANGED <<codec_vars, registry_vars, api_vars, call>>

\* the handler asks the paginator for the meta of the response
JsonMetaCall ==
    /\ paginator.built
    /\ ret' = [status |-> "ok", json_meta |-> json_meta(paginator)]
    /\ UNCHANGED <<codec_vars, registry_vars, api_vars, call, paginator>>

NextPagination ==
    \/ FromRequestCall
    \/ NumberSizeCall
    \/ JsonLinksCall
    \/ JsonMetaCall

SpecPagination == InitPagination /\ [][NextPagination]_vars

\* ------------------------------------------------------------------ errors
\* the longest ErrorList of the model
MaxErrors == 3

PyDict(m) == [t |-> "dict", m |-> m]

\* str(value) of a Python value
PyStrOf(value) ==
    CASE value.t = "none" -> "None"
      [] value.t = "str" -> value.s
      [] value.t = "int" -> StrOfInt(value.n)

\* the keyword parameters of Error.__init__ and their defaults
ErrorDefaults ==
    [http_status |-> PyInt(500), id |-> PyNone, about |-> PyStr(""),
     code |-> PyNone, title |-> PyNone, detail |-> PyStr(""),
     source_parameter |-> PyNone, source_pointer |-> PyNone, meta |-> PyNone]

\* Error.__init__(**kwargs) of class class_name: the attributes of the error
ErrorInit(class_name, kwargs) ==
    LET arg(name) == IF name \in DOMAIN kwargs THEN kwargs[name]
                     ELSE ErrorDefaults[name]
    IN  [http_status |-> arg("http_status"),
         id |-> arg("id"),
         about |-> arg("about"),
         code |-> arg("code"),
         title |-> IF arg("title") # PyNone THEN arg("title")
                   ELSE PyStr(class_name),
         detail |-> arg("detail"),
         source_pointer |-> PyStr(PyStrOf(arg("source_pointer"))),
         source_parameter |-> arg("source_parameter"),
         meta |-> arg("meta")]

\* the source member of Error.json
ErrorSource(self) ==
    LET members == {k \in {"pointer", "parameter"} :
                        IF k = "pointer" THEN Truthy(self.source_pointer)
                        ELSE Truthy(self.source_parameter)}
    IN  [k \in members |-> IF k = "pointer" THEN self.source_pointer.s
                           ELSE self.source_parameter.s]

\* Error.json: the members of the serialized error
ErrorJson(self) ==
    LET members ==
            {"status", "title"}
            \cup (IF self.id # PyNone THEN {"id"} ELSE {})
            \cup (IF Truthy(self.about) THEN {"links"} ELSE {})
            \cup (IF Truthy(self.code) THEN {"code"} ELSE {})
            \cup (IF Truthy(self.detail) THEN {"detail"} ELSE {})
            \cup (IF Truthy(self.source_pointer)
                        \/ Truthy(self.source_parameter)
                  THEN {"source"} ELSE {})
            \cup (IF Truthy(self.meta) THEN {"meta"} ELSE {})
    IN  [k \in members |->
            CASE k = "id" -> PyStrOf(self.id)
              [] k = "status" -> self.http_status.n
              [] k = "title" -> self.title.s
              [] k = "links" -> [about |-> self.about.s]
              [] k = "code" -> self.code.s
              [] k = "detail" -> self.detail.s
              [] k = "source" -> ErrorSource(self)
              [] k = "meta" -> self.meta.m]

\* 400 <= http_status <= 500
Is4xx_Inclusive(http_status) == 400 <= http_status /\ http_status <= 500

\* 400 <= http_status < 500
Is4xx(http_status) == 400 <= http_status /\ http_status < 500

\* ErrorList.http_status
ErrorListHttpStatus(errors) ==
    IF errors = <<>> THEN PyNone
    ELSE IF \A i \in DOMAIN errors :
                errors[i].http_status = errors[1].http_status
    THEN errors[1].http_status
    ELSE IF \E i \in DOMAIN errors : Is4xx(errors[i].http_status.n)
    THEN PyInt(400)
    ELSE PyInt(500)

\* the statuses of the errors of the model: around both ends of [400, 500)
StatusValues == {399, 400, 422, 499, 500}

\* the keyword arguments a caller may give to Error: each parameter is left
\* out or given a value
ErrorKwargsValues ==
    [http_status |-> {PyInt(422)},
     id |-> {PyStr("e1"), PyInt(0)},
     about |-> {PyStr("http://about")},
     code |-> {PyStr("E42")},
     title |-> {PyStr("Conflict")},
     detail |-> {PyStr("went wrong")},
     source_parameter |-> {PyStr("sort")},
     source_pointer |-> {PyStr("/data")},
     meta |-> {PyDict([trace |-> "t"])}]

ErrorKwargsInputs ==
    {[n \in names |-> IF n = "id" THEN id
                      ELSE CHOOSE v \in ErrorKwargsValues[n] : TRUE] :
        names \in SUBSET DOMAIN ErrorKwargsValues, id \in ErrorKwargsValues.id}

\* the error lists of the model: up to MaxErrors errors, each created with
\* one of the statuses
ErrorListInputs ==
    UNION {[1..n -> {ErrorInit("Error", [http_status |-> PyInt(st)]) :
                        st \in StatusValues}] : n \in 0..MaxErrors}

ErrorCalls ==
    [fn : {"Error.json"}, kwargs : ErrorKwargsInputs]
    \cup [fn : {"ErrorList.http_status"}, errors : ErrorListInputs]

InitErrors ==
    /\ CodecIdle
    /\ RegistryIdle
    /\ ApiIdle
    /\ call \in ErrorCalls
    /\ ret = NoReturn
    /\ paginator = NoPaginator

\* An Error is created from the keyword arguments and serialized.
ErrorJsonCall ==
    /\ ret = NoReturn
    /\ call.fn = "Error.json"
    /\ ret' = [status |-> "ok",
               json |-> ErrorJson(ErrorInit("Error", call.kwargs))]
    /\ UNCHANGED <<call, paginator>>
    /\ UNCHANGED <<codec_vars, registry_vars, api_vars>>

\* The http_status property of an ErrorList is read.
ErrorListHttpStatusCall ==
    /\ ret = NoReturn
    /\ call.fn = "ErrorList.http_status"
    /\ ret' = [status |-> "ok",
               http_status |-> ErrorListHttpStatus(call.errors)]
    /\ UNCHANGED <<call, paginator>>
    /\ UNCHANGED <<codec_vars, registry_vars, api_vars>>

NextErrors == ErrorJsonCall \/ ErrorListHttpStatusCall

SpecErrors == InitErrors /\ [][NextErrors]_vars

\* ---------------------------------------------------------- class creation
\* the resource classes of the model, created in this order
ClassNames == <<"A", "B", "C">>

\* what a class body must define for the class to be instantiable
RequiredNames ==
    {"id", "model_class", "japi_resource_type", "japi_resource_url_component"}

\* a field as the class body constructs it: japi_name, python_name and
\* bound_resource_class are not set yet
FieldDeclaration(kind, nullable) ==
    [kind |-> kind, japi_name |-> "", python_name |-> "",
     nullable |-> nullable, writable_during |-> ALWAYS_SET,
     bound_resource_class |-> ""]

\* the class bodies of the model: title is left out or an Attribute, author
\* is left out or a ToOneRelationship; of the required names the body
\* defines all, all but id, or none
ClassBodies ==
    LET title == FieldDeclaration("Attribute", FALSE)
        author == FieldDeclaration("ToOneRelationship", FALSE)
        declared ==
            {[k \in names |-> IF k = "title" THEN title ELSE author] :
                names \in SUBSET {"title", "author"}}
    IN  [fields : declared,
         names : {{}, RequiredNames, RequiredNames \ {"id"}}]

\* d.update(e) that keeps the entries d already has
Update_KeepExisting(d, e) ==
    [k \in DOMAIN d \cup DOMAIN e |-> IF k \in DOMAIN d THEN d[k] ELSE e[k]]

\* d.update(e)
Update(d, e) ==
    [k \in DOMAIN d \cup DOMAIN e |-> IF k \in DOMAIN e THEN e[k] ELSE d[k]]

\* for base in reversed(bases): map.update(base's map), from position n down
RECURSIVE UpdateFromBases(_, _, _, _, _)
UpdateFromBases(map, registered, bases, n, map_name) ==
    IF n = 0 THEN map
    ELSE UpdateFromBases(Update(map, registered[bases[n]][map_name]),
                         registered, bases, n - 1, map_name)

\* the object that stands for ref in the copy: the object itself, no copy
DeepCopyRef_Shared(cls, map_name, wire_name, ref) == ref

\* the object that stands for ref in copy.deepcopy(map): a new object
DeepCopyRef(cls, map_name, wire_name, ref) == <<cls, map_name, wire_name>>

\* copy.deepcopy(map): the copied map, and the heap with the new objects
DeepCopyMap(cls, map_name, map) ==
    [w \in DOMAIN map |-> DeepCopyRef(cls, map_name, w, map[w])]

DeepCopyHeap(objects, cls, map_name, map) ==
    LET copied == DeepCopyMap(cls, map_name, map)
        new == {copied[w] : w \in DOMAIN map}
    IN  [ref \in DOMAIN objects \cup new |->
            IF \E w \in DOMAIN map : copied[w] = ref
            THEN objects[map[CHOOSE w \in DOMAIN map : copied[w] = ref]]
            ELSE objects[ref]]

\* the object a class body created under python_name
BodyRef(cls, python_name) == <<cls, "attrs", python_name>>

\* the loop over the class body: the field as ResourceMeta leaves it
InitialisedField(cls, python_name, val) ==
    [val EXCEPT !.python_name = python_name,
                !.japi_name = IF val.japi_name = "" THEN python_name
                              ELSE val.japi_name,
                !.bound_resource_class =
                    IF val.kind = "ToOneRelationship" THEN cls
                    ELSE val.bound_resource_class]

\* the entries the loop over the class body writes into a wire-name map
LocalEntries(cls, attrs, kind) ==
    LET local == {p \in DOMAIN attrs.fields : attrs.fields[p].kind = kind}
        wire(p) == InitialisedField(cls, p, attrs.fields[p]).japi_name
    IN  [w \in {wire(p) : p \in local} |->
            BodyRef(cls, CHOOSE p \in local : wire(p) = w)]

\* cls._instantiable: the class body itself defines an Id, a model class, a
\* resource type and a URL component
Instantiable(attrs) == RequiredNames \subseteq attrs.names

\* ResourceMeta.__init__(cls, name, bases, attrs): the class, and the heap
\* with the copies of the inherited fields and the fields of the body
ResourceMetaInit(registered, objects, name, bases, attrs) ==
    LET inherited_attrs == UpdateFromBases(<<>>, registered, bases,
                                           Len(bases), "_attrs_by_japi_name")
        inherited_rels == UpdateFromBases(<<>>, registered, bases,
                                          Len(bases), "_rels_by_japi_name")
        with_attrs == DeepCopyHeap(objects, name, "_attrs_by_japi_name",
                                   inherited_attrs)
        with_rels == DeepCopyHeap(with_attrs, name, "_rels_by_japi_name",
                                  inherited_rels)
        local == [ref \in {BodyRef(name, p) : p \in DOMAIN attrs.fields} |->
                    InitialisedField(name, ref[3], attrs.fields[ref[3]])]
    IN  [cls |-> [bases |-> bases,
                  attrs |-> attrs,
                  _attrs_by_japi_name |->
                      Update(DeepCopyMap(name, "_attrs_by_japi_name",
                                         inherited_attrs),
                             LocalEntries(name, attrs, "Attribute")),
                  _rels_by_japi_name |->
                      Update(DeepCopyMap(name, "_rels_by_japi_name",
                                         inherited_rels),
                             LocalEntries(name, attrs, "ToOneRelationship")),
                  _instantiable |-> Instantiable(attrs)],
         heap |-> Update(with_rels, local)]

\* attribute lookup on a class: the class that defines name, the class
\* itself first, then its bases in the order listed; "" when none does
RECURSIVE DefiningClass(_, _, _)
DefiningClassOfBases(registered, bases, name) ==
    LET found == {n \in DOMAIN bases :
                    DefiningClass(registered, bases[n], name) # ""}
    IN  IF found = {} THEN ""
        ELSE DefiningClass(registered,
                           bases[CHOOSE n \in found : \A m \in found : n <= m],
                           name)

DefiningClass(registered, cls, name) ==
    IF name \in registered[cls].attrs.names THEN cls
    ELSE DefiningClassOfBases(registered, registered[cls].bases, name)

\* the URL component a class body defines
UrlComponentOf(cls) == <<"url of ", cls>>

\* field.bound_resource_class.japi_resource_url_component
BoundUrlComponent(registered, field) ==
    LET definer == DefiningClass(registered, field.bound_resource_class,
                                 "japi_resource_url_component")
    IN  IF definer = "" THEN "AttributeError" ELSE UrlComponentOf(definer)

\* Relationship.relationship_link and Relationship.related_link of the
\* relationships of a class, as ToOneRelationship.serialize calls them
RelationshipLinks(registered, objects, cls, id) ==
    LET rels == registered[cls]._rels_by_japi_name
        component(w) == BoundUrlComponent(registered, objects[rels[w]])
    IN  IF \E w \in DOMAIN rels : component(w) = "AttributeError"
        THEN [status |-> "AttributeError"]
        ELSE [status |-> "ok",
              links |-> [w \in DOMAIN rels |->
                [self |-> link_for_relationship(link_prefix, component(w), id,
                                                objects[rels[w]].japi_name),
                 related |-> link_for_related(link_prefix, component(w), id,
                                              objects[rels[w]].japi_name)]]]

\* the classes a class derives from, itself included
RECURSIVE Ancestors(_, _)
Ancestors(registered, cls) ==
    {cls} \cup UNION {Ancestors(registered, registered[cls].bases[n]) :
                        n \in DOMAIN registered[cls].bases}

\* the base lists Python accepts: classes already created, none twice, none
\* listed before one of its own subclasses
BasesInputs(registered) ==
    LET names == DOMAIN registered
        lists == {<<>>} \cup {<<b>> : b \in names}
                 \cup {<<b, c>> : b \in names, c \in names}
    IN  {bases \in lists :
            \A n \in DOMAIN bases, m \in DOMAIN bases :
                n < m => bases[n] \notin Ancestors(registered, bases[m])}

InitRegistry ==
    /\ CodecIdle
    /\ RegistryIdle
    /\ ApiIdle
    /\ call = NoCall
    /\ ret = NoReturn
    /\ paginator = NoPaginator

\* A class statement creates the next resource class.
ClassStatement ==
    /\ call = NoCall
    /\ Cardinality(DOMAIN classes) < Len(ClassNames)
    /\ LET name == ClassNames[Cardinality(DOMAIN classes) + 1] IN
       \E bases \in BasesInputs(classes), attrs \in ClassBodies :
          LET made == ResourceMetaInit(classes, heap, name, bases, attrs) IN
          /\ classes' = Update(classes, [c \in {name} |-> made.cls])
          /\ heap' = made.heap
    /\ UNCHANGED <<mutated, call, ret, paginator>>
    /\ UNCHANGED <<codec_vars, api_vars>>

\* A property of a field in one of the maps of a class is changed: the
\* field is made read-only.
FieldMutation ==
    /\ call = NoCall
    /\ ~mutated
    /\ \E cls \in DOMAIN classes,
          map_name \in {"_attrs_by_japi_name", "_rels_by_japi_name"} :
       \E w \in DOMAIN classes[cls][map_name] :
          LET ref == classes[cls][map_name][w] IN
          heap' = [heap EXCEPT ![ref].writable_during = {}]
    /\ mutated' = TRUE
    /\ UNCHANGED <<classes, call, ret, paginator>>
    /\ UNCHANGED <<codec_vars, api_vars>>

\* Resource.__init__: a resource of a class is created around a model.
ResourceInit ==
    /\ call = NoCall
    /\ ~mutated
    /\ \E cls \in DOMAIN classes :
          /\ call' = [fn |-> "Resource.__init__", cls |-> cls]
          /\ ret' = [status |-> IF classes[cls]._instantiable THEN "ok"
                                ELSE "AssertionError"]
    /\ UNCHANGED <<registry_vars, paginator>>
    /\ UNCHANGED <<codec_vars, api_vars>>

\* The relationships of a resource of an instantiable class are serialized.
SerializeRelationshipLinks ==
    /\ call = NoCall
    /\ ~mutated
    /\ \E cls \in DOMAIN classes :
          /\ classes[cls]._instantiable
          /\ call' = [fn |-> "serialize", cls |-> cls]
          /\ ret' = RelationshipLinks(classes, heap, cls, "1")
    /\ UNCHANGED <<registry_vars, paginator>>
    /\ UNCHANGED <<codec_vars, api_vars>>

NextRegistry ==
    ClassStatement \/ FieldMutation \/ ResourceInit \/ SerializeRelationshipLinks

SpecRegistry == InitRegistry /\ [][NextRegistry]_vars

\* ------------------------------------------------- FlaskAPI.handle_request
\* the request types and methods the URL rules route to handle_request
Routes ==
    ({"RESOURCE"} \X {"get", "delete", "patch"})
    \cup ({"COLLECTION"} \X {"get", "post"})
    \cup ({"RELATED"} \X {"get"})
    \cup ({"RELATIONSHIP"} \X {"get", "post", "delete", "patch"})

\* the handler methods that call dal.commit and then an after_ hook
CommittingMethods ==
    {<<"RESOURCE", "patch">>, <<"RESOURCE", "delete">>,
     <<"COLLECTION", "post">>, <<"RELATIONSHIP", "patch">>}

\* the status of the Response a handler method builds
SuccessStatus(route) ==
    CASE route = <<"COLLECTION", "post">> -> 201
      [] route \in {<<"RESOURCE", "delete">>, <<"RELATIONSHIP", "patch">>} -> 204
      [] OTHER -> 200

\* what a handler, a hook or the session may raise: an Error of the
\* framework, a database integrity error, any other exception
ApiError(http_status) == [kind |-> "Error", http_status |-> http_status]
IntegrityError == [kind |-> "IntegrityError"]
OtherException == [kind |-> "Exception"]
Raisable == {ApiError(400), ApiError(403), ApiError(404), IntegrityError,
             OtherException}

\* the except clauses of handle_request: the status of the error response
ErrorResponseStatus(err) ==
    CASE err.kind = "Error" -> err.http_status
      [] err.kind = "IntegrityError" -> 400
      [] OTHER -> 500

\* the requests of the model
RequestInputs ==
    [route : Routes, json_parses : BOOLEAN, handler_registered : BOOLEAN,
     accept : {"application/vnd.api+json", "text/plain", "image/png"}]

InitApi ==
    /\ CodecIdle
    /\ RegistryIdle
    /\ request \in RequestInputs
    /\ session = NoSession
    /\ api_pc = "idle"
    /\ api_response = NoResponse
    /\ call = NoCall
    /\ ret = NoReturn
    /\ paginator = NoPaginator

\* an except clause: the session is rolled back and the error becomes the
\* response; the finally clause is next
Except(err) ==
    /\ session' = [session EXCEPT !.rollbacks = @ + 1]
    /\ api_response' = [status |-> ErrorResponseStatus(err)]
    /\ api_pc' = "finally"

\* handle_request up to the call of the handler: the session is obtained,
\* the body parsed, the handler looked up and the Accept header examined
HandleRequest ==
    /\ api_pc = "idle"
    /\ session' = [opened |-> TRUE, commits |-> 0, rollbacks |-> 0,
                   removes |-> 0]
    /\ IF ~request.json_parses
       THEN /\ api_response' = [status |-> 400]
            /\ api_pc' = "except"
       ELSE IF ~request.handler_registered
       THEN /\ api_response' = [status |-> 404]
            /\ api_pc' = "except"
       ELSE IF request.accept # "application/vnd.api+json"
       THEN /\ api_response' = [status |-> 406]
            /\ api_pc' = "except"
       ELSE /\ api_response' = NoResponse
            /\ api_pc' = "handler"
    /\ UNCHANGED <<request, codec_vars, util_vars, registry_vars>>

\* the except clause after an error raised before the handler was called
ExceptBeforeHandler ==
    /\ api_pc = "except"
    /\ Except(ApiError(api_response.status))
    /\ UNCHANGED <<request, codec_vars, util_vars, registry_vars>>

\* the handler method up to its commit, the before_ hook included: it
\* raises, returns an error response (ResourceHandler.delete of a missing
\* resource), returns its response (get), or goes on to commit
HandlerMethod ==
    /\ api_pc = "handler"
    /\ \/ \E err \in Raisable : Except(err)
       \/ /\ request.route \in {<<"RELATIONSHIP", "post">>,
                                <<"RELATIONSHIP", "delete">>}
          /\ Except(ApiError(405))
       \/ /\ request.route = <<"RESOURCE", "delete">>
          /\ api_response' = [status |-> 404]
          /\ api_pc' = "finally"
          /\ UNCHANGED session
       \/ /\ request.route[2] = "get"
          /\ api_response' = [status |-> SuccessStatus(request.route)]
          /\ api_pc' = "finally"
          /\ UNCHANGED session
       \/ /\ request.route \in CommittingMethods
          /\ api_pc' = "commit"
          /\ UNCHANGED <<session, api_response>>
    /\ UNCHANGED <<request, codec_vars, util_vars, registry_vars>>

\* dal.commit(request.session): the commit is performed, or the database
\* refuses it
DalCommit ==
    /\ api_pc = "commit"
    /\ \/ /\ session' = [session EXCEPT !.commits = @ + 1]
          /\ api_pc' = "after"
          /\ UNCHANGED api_response
       \/ Except(IntegrityError)
    /\ UNCHANGED <<request, codec_vars, util_vars, registry_vars>>

\* the after_ hook of the handler: it returns, and the handler returns its
\* response, or it raises
AfterHook ==
    /\ api_pc = "after"
    /\ \/ /\ api_response' = [status |-> SuccessStatus(request.route)]
          /\ api_pc' = "finally"
          /\ UNCHANGED session
       \/ \E err \in Raisable : Except(err)
    /\ UNCHANGED <<request, codec_vars, util_vars, registry_vars>>

\* the finally clause: session.remove(), then the response is returned
Finally ==
    /\ api_pc = "finally"
    /\ session' = [session EXCEPT !.removes = @ + 1]
    /\ api_pc' = "returned"
    /\ UNCHANGED <<request, api_response, codec_vars, util_vars,
                   registry_vars>>

NextApi ==
    \/ HandleRequest
    \/ ExceptBeforeHandler
    \/ HandlerMethod
    \/ DalCommit
    \/ AfterHook
    \/ Finally

SpecApi == InitApi /\ [][NextApi]_vars

\* every step of handle_request is taken: the request is handled to its end
FairSpecApi == SpecApi /\ WF_vars(NextApi)

\* ------------------------------------------------- vocabulary of the claims
\* These predicates describe the request and the schema in the words of the
\* specification; none of them uses the operators that model the codec.

\* the document has the resource type of the schema
TypeMatches(d) == d.type = japi_resource_type

\* names of the document that the schema does not declare
UnknownAttributes(d) == {k \in DOMAIN d.attributes : k \notin DOMAIN schema.attrs}
UnknownRelationships(d) ==
    {k \in DOMAIN d.relationships : k \notin DOMAIN schema.rels}

\* schema fields that are absent from the document, neither nullable nor
\* with a default
RequiredAttributesAbsent(d) ==
    {a \in DOMAIN schema.attrs :
        /\ a \notin DOMAIN d.attributes
        /\ ~schema.attrs[a].nullable
        /\ ~schema.attrs[a].has_default}
RequiredRelationshipsAbsent(d) ==
    {r \in DOMAIN schema.rels :
        /\ r \notin DOMAIN d.relationships
        /\ ~schema.rels[r].nullable
        /\ ~schema.rels[r].has_default}

\* fields of the schema that the document supplies
PresentAttributes(d) == DOMAIN d.attributes \cap DOMAIN schema.attrs
PresentRelationships(d) == DOMAIN d.relationships \cap DOMAIN schema.rels

\* supplied fields that are not writable in the context
UnwritableAttributes(d, context) ==
    {a \in PresentAttributes(d) : context \notin schema.attrs[a].writable_during}
UnwritableRelationships(d, context) ==
    {r \in PresentRelationships(d) : context \notin schema.rels[r].writable_during}

\* supplied attributes that carry null although the field is not nullable
NullOnNonNullable(d) ==
    {a \in PresentAttributes(d) :
        d.attributes[a] = None /\ ~schema.attrs[a].nullable}

\* a relationship object whose linkage names a resource of the related type
\* by a numeric id
IsLinkageToRelated(value) ==
    /\ value.kind = "ident"
    /\ value.type = related_resource_type
    /\ value.id \in {DecStr[k] : k \in DOMAIN DecStr}

\* Resource.deserialize has run on doc (its results stay in the state while
\* the returned resource is serialized and deserialized again)
Deserialized == pc \in {"deserialized", "serialized", "roundtripped"}

\* ------------------------------------------------------------------ claims
\* C1: for a document whose type is the schema's resource type,
\* Resource.deserialize raises a semantic error (422) if the attributes hold
\* a key that is no attribute wire name of the schema, and raises a semantic
\* error (422) if a schema attribute that is neither nullable nor has a
\* default is absent; in neither case is a resource returned.
C1_ExtraOrMissingAttributeIs422 ==
    (/\ Deserialized
     /\ TypeMatches(doc)
     /\ \/ UnknownAttributes(doc) # {}
        \/ RequiredAttributesAbsent(doc) # {})
    => status = "422"

\* a required attribute is absent from a document without unknown keys, and
\* deserialize has answered 422
C1_Witness ==
    /\ pc = "deserialized"
    /\ TypeMatches(doc)
    /\ UnknownAttributes(doc) = {}
    /\ RequiredAttributesAbsent(doc) # {}
    /\ status = "422"

\* the document passes the checks deserialize makes on its members as a
\* whole: its type, unknown names and absent required fields
WellFormedForCreate(d) ==
    /\ TypeMatches(d)
    /\ UnknownAttributes(d) = {}
    /\ UnknownRelationships(d) = {}
    /\ RequiredAttributesAbsent(d) = {}
    /\ RequiredRelationshipsAbsent(d) = {}

\* the supplied fields that may not be written during CREATE
UnwritableOnCreate(d) ==
    UnwritableAttributes(d, "CREATE") \cup UnwritableRelationships(d, "CREATE")

\* C2 as stated, for documents of the schema's type without unknown or
\* missing members: for every attribute or to-one relationship that is
\* present in the document and whose writable_during does not contain
\* CREATE, Resource.deserialize raises an authorization error (403) and the
\* field's setter is never invoked on the new record.
C2_UnwritableOnCreateIs403 ==
    (/\ Deserialized
     /\ WellFormedForCreate(doc)
     /\ UnwritableOnCreate(doc) # {})
    => /\ status = "403"
       /\ fset_log \cap UnwritableOnCreate(doc) = {}

\* nothing that deserialize checks before the writability of an unwritable
\* field is wrong with the document
NothingCheckedEarlierOnCreate(d) ==
    /\ TypeMatches(d)
    /\ UnknownAttributes(d) = {}
    /\ RequiredAttributesAbsent(d) = {}
    /\ NullOnNonNullable(d) = {}
    /\ UnwritableAttributes(d, "CREATE") = {} =>
          /\ UnknownRelationships(d) = {}
          /\ RequiredRelationshipsAbsent(d) = {}
          /\ \A r \in PresentRelationships(d) :
                "CREATE" \in schema.rels[r].writable_during
                    => IsLinkageToRelated(d.relationships[r])

\* C2, amended: for every attribute or to-one relationship that is present
\* in the document and whose writable_during does not contain CREATE,
\* Resource.deserialize returns no resource and never invokes that field's
\* setter on the new record; the error is the authorization error (403)
\* when nothing that deserialize checks earlier is wrong with the document
\* (in particular no attribute carries null for a non-nullable field, the
\* unwritable attribute included: that check comes first and raises 422).
C2_UnwritableOnCreateIsRejected ==
    (Deserialized /\ UnwritableOnCreate(doc) # {})
    => /\ status # "ok"
       /\ fset_log \cap UnwritableOnCreate(doc) = {}
       /\ NothingCheckedEarlierOnCreate(doc) => status = "403"

\* the attribute has been written and the relationship, not writable during
\* CREATE, has then been refused with 403
C2_Witness ==
    /\ pc = "deserialized"
    /\ UnwritableRelationships(doc, "CREATE") # {}
    /\ fset_log = PresentAttributes(doc)
    /\ fset_log # {}
    /\ status = "403"

\* the PATCH of ResourceHandler.patch has been handled
Patched == pc = "patched"

\* the body passes assert_resource_object: every relationship member is an
\* object with a data member
PassesFormatValidation(d) ==
    \A k \in DOMAIN d.relationships :
        d.relationships[k].kind \in {"datanull", "datastr", "ident"}

\* the supplied fields that may not be written during UPDATE
UnwritableOnUpdate(d) ==
    UnwritableAttributes(d, "UPDATE") \cup UnwritableRelationships(d, "UPDATE")

\* the stored record is what it was when the request arrived, in the session
\* and in the database, and no setter has been invoked
RecordUntouched ==
    /\ model = StoredModel
    /\ db = StoredModel
    /\ fset_log = {}

\* C3 as stated, for bodies that pass the format validation and have the
\* schema's type: for every PATCH whose document contains an attribute or
\* relationship whose writable_during does not contain UPDATE,
\* create_patch_dict raises an authorization error (403), and the stored
\* record has the same field values after the request as before it.
C3_UnwritableOnUpdateIs403 ==
    (/\ Patched
     /\ PassesFormatValidation(doc)
     /\ TypeMatches(doc)
     /\ UnwritableOnUpdate(doc) # {})
    => /\ status = "403"
       /\ RecordUntouched

\* nothing that the PATCH checks before the writability of an unwritable
\* field is wrong with the document
NothingCheckedEarlierOnUpdate(d) ==
    /\ PassesFormatValidation(d)
    /\ TypeMatches(d)
    /\ UnknownAttributes(d) = {}
    /\ UnwritableAttributes(d, "UPDATE") = {} =>
          /\ UnknownRelationships(d) = {}
          /\ \A r \in PresentRelationships(d) :
                "UPDATE" \in schema.rels[r].writable_during
                    => IsLinkageToRelated(d.relationships[r])

\* C3, amended: every PATCH whose document contains an attribute or
\* relationship whose writable_during does not contain UPDATE is rejected
\* before a patch dict exists, and the stored record has the same field
\* values after the request as before it (apply_patch_dict is not reached,
\* no setter is invoked, nothing is committed); the error is the
\* authorization error (403) of create_patch_dict when nothing that is
\* checked earlier is wrong with the document.
C3_UnwritableOnUpdateIsRejected ==
    (Patched /\ UnwritableOnUpdate(doc) # {})
    => /\ status \notin {"ok", "AssertionError", "AttributeError"}
       /\ ~patch_dict.made
       /\ RecordUntouched
       /\ NothingCheckedEarlierOnUpdate(doc) => status = "403"

\* a PATCH that writes the attribute and a relationship that is not
\* writable during UPDATE has been refused with 403
C3_Witness ==
    /\ Patched
    /\ UnwritableRelationships(doc, "UPDATE") # {}
    /\ PresentAttributes(doc) # {}
    /\ UnwritableAttributes(doc, "UPDATE") = {}
    /\ status = "403"
    /\ RecordUntouched

\* the relationship request of ToOneRelationshipHandler.patch has been handled
RelationshipPatched == pc = "rel_patched"

\* C4, for bodies whose linkage is null or names a resource of the related
\* type: a write to a to-one relationship through the relationship endpoint
\* is rejected with an authorization error (403) whenever the
\* relationship's writable_during does not contain UPDATE, and then the
\* record's foreign key is left unchanged and nothing is committed.
C4_RelationshipEndpointHonoursUpdate ==
    (/\ RelationshipPatched
     /\ body.kind = "datanull" \/ IsLinkageToRelated(body)
     /\ "UPDATE" \notin schema.rels[relationship].writable_during)
    => /\ status = "403"
       /\ model = StoredModel
       /\ db = StoredModel

\* the record holds the values of the patch dict
HoldsPatch(m, patch) ==
    /\ \A a \in DOMAIN patch.attributes :
            m[mapped_attribute_name(a)] = patch.attributes[a]
    /\ \A r \in DOMAIN patch.relationships :
            m[mapped_fk_name(r)] = patch.relationships[r]

\* C5: for every patch dict produced by create_patch_dict, apply_patch_dict
\* completes and afterwards the record holds, for every attribute and every
\* relationship of the patch dict, the value given there, also when the
\* relationships map of the patch dict is not empty.
C5_ApplyPatchDictWritesEveryField ==
    (Patched /\ patch_dict.made)
    => /\ status = "ok"
       /\ HoldsPatch(model, patch_dict)

\* C6: for every document accepted by create_patch_dict, the attribute keys
\* of the patch dict are exactly the attribute wire names of the document
\* and its relationship keys exactly the relationship wire names of the
\* document; a schema field that is absent from the document is not in the
\* patch dict, and a document is rejected only for what it contains, never
\* for a field it leaves out.
C6_PatchDictHasExactlyThePresentFields ==
    Patched =>
       /\ patch_dict.made =>
             /\ DOMAIN patch_dict.attributes = DOMAIN doc.attributes
             /\ DOMAIN patch_dict.relationships = DOMAIN doc.relationships
       /\ ~patch_dict.made =>
             \/ ~PassesFormatValidation(doc)
             \/ ~TypeMatches(doc)
             \/ UnknownAttributes(doc) # {}
             \/ UnknownRelationships(doc) # {}
             \/ UnwritableOnUpdate(doc) # {}
             \/ \E r \in PresentRelationships(doc) :
                    ~IsLinkageToRelated(doc.relationships[r])

\* a patch dict has been made from a document that supplies a relationship
\* and leaves out an attribute that is neither nullable nor has a default
C6_Witness ==
    /\ Patched
    /\ patch_dict.made
    /\ DOMAIN patch_dict.relationships # {}
    /\ RequiredAttributesAbsent(doc) # {}

\* C7, for documents of the schema's type whose attribute keys are all
\* known and writable in the context (and, for a PATCH, that pass the format
\* validation): in Resource.deserialize and in Resource.create_patch_dict,
\* a document that supplies null for an attribute whose field is not
\* nullable is rejected with a semantic error (422) and produces no record
\* and no patch dict.
C7_NullOnNonNullableAttributeIs422 ==
    \A context \in Context :
        (/\ IF context = "CREATE" THEN Deserialized
            ELSE Patched /\ PassesFormatValidation(doc)
         /\ TypeMatches(doc)
         /\ UnknownAttributes(doc) = {}
         /\ UnwritableAttributes(doc, context) = {}
         /\ NullOnNonNullable(doc) # {})
        => /\ status = "422"
           /\ ~patch_dict.made

\* the supplied attributes are acceptable in the context
AttributesAcceptable(d, context) ==
    /\ UnknownAttributes(d) = {}
    /\ UnwritableAttributes(d, context) = {}
    /\ context = "CREATE" =>
          /\ RequiredAttributesAbsent(d) = {}
          /\ NullOnNonNullable(d) = {}

\* the relationships of the document whose linkage is null ({"data": null})
NullLinkages(d) ==
    {r \in PresentRelationships(d) : d.relationships[r].kind = "datanull"}

\* C8, for documents whose type and attributes are acceptable and whose only
\* relationship members are null linkages of schema relationships that are
\* writable in the context: for a to-one relationship object whose linkage
\* is null, Resource.deserialize and Resource.create_patch_dict store the
\* absent value (null foreign key) when the relationship is nullable, and
\* raise a semantic error (422) when it is not nullable.
C8_NullLinkageIsStoredOrIs422 ==
    \A context \in Context :
        (/\ IF context = "CREATE" THEN Deserialized
            ELSE Patched /\ PassesFormatValidation(doc)
         /\ TypeMatches(doc)
         /\ AttributesAcceptable(doc, context)
         /\ DOMAIN doc.relationships = NullLinkages(doc)
         /\ UnwritableRelationships(doc, context) = {})
        => \A r \in NullLinkages(doc) :
              IF schema.rels[r].nullable
              THEN IF context = "CREATE"
                   THEN /\ status = "ok"
                        /\ r \in fset_log
                        /\ new_model[mapped_fk_name(r)] = None
                   ELSE /\ patch_dict.made
                        /\ r \in DOMAIN patch_dict.relationships
                        /\ patch_dict.relationships[r] = None
              ELSE status = "422"

\* every field of the schema is writable during CREATE and none has a
\* default
PlainSchema ==
    /\ \A a \in DOMAIN schema.attrs :
          /\ "CREATE" \in schema.attrs[a].writable_during
          /\ ~schema.attrs[a].has_default
    /\ \A r \in DOMAIN schema.rels :
          /\ "CREATE" \in schema.rels[r].writable_during
          /\ ~schema.rels[r].has_default

\* C9, for schemas whose fields are all writable during CREATE and have no
\* default: for every document D that Resource.deserialize accepts,
\* serializing the record built from D without a field filter and
\* deserializing that output again succeeds and yields a record in which
\* every attribute and every relationship present in D has the same value
\* as in the first record.
C9_RoundTripPreservesPresentFields ==
    (pc = "roundtripped" /\ PlainSchema)
    => /\ rt_status = "ok"
       /\ \A a \in PresentAttributes(doc) :
             rt_model[mapped_attribute_name(a)]
                = new_model[mapped_attribute_name(a)]
       /\ \A r \in PresentRelationships(doc) :
             rt_model[mapped_fk_name(r)] = new_model[mapped_fk_name(r)]

\* Resource.serialize has run, on the stored record or on the record that
\* deserialize built
Serialized == pc \in {"got", "serialized"}
SerializedRecord == IF pc = "got" THEN model ELSE new_model

\* the names of a wire-name map that the field filter asks for
Requested(names) ==
    IF fields.unset THEN names ELSE names \cap fields.names

\* C10: Resource.serialize always emits id, type and links.self.  With no
\* field filter the attributes object has exactly the attribute wire names
\* of the schema and the relationships object exactly its relationship wire
\* names; with a field filter F they have exactly the schema names that are
\* in F; an attributes or relationships member is present if and only if it
\* would be non-empty (an empty filter yields only id, type and links).
C10_SerializeEmitsTheRequestedFields ==
    Serialized =>
       /\ response.id = Str(SerializedRecord[mapped_pk_name])
       /\ response.type = japi_resource_type
       /\ \E l \in response.links : l[1] = "self"
       /\ DOMAIN response.attributes = Requested(DOMAIN schema.attrs)
       /\ DOMAIN response.relationships = Requested(DOMAIN schema.rels)
       /\ response.has_attributes <=> Requested(DOMAIN schema.attrs) # {}
       /\ response.has_relationships <=> Requested(DOMAIN schema.rels) # {}

\* the stored record has been serialized with the empty filter: neither an
\* attributes nor a relationships member is in the result
C10_Witness ==
    /\ pc = "got"
    /\ ~fields.unset
    /\ fields.names = {}
    /\ ~response.has_attributes
    /\ ~response.has_relationships
    /\ response.id = "1"

\* ---------------------------------------------------------------- C11
\* p is base followed by keys, each with its "/"
IsUnder(base, p) ==
    /\ Len(p) >= Len(base)
    /\ SubSeq(p, 1, Len(base)) = base
    /\ (Len(p) - Len(base)) % 2 = 0
    /\ \A i \in 1..((Len(p) - Len(base)) \div 2) : p[Len(base) + 2 * i] = "/"

\* the keys that follow base in p
TraversedKeys(base, p) ==
    [i \in 1..((Len(p) - Len(base)) \div 2) |-> p[Len(base) + 2 * i - 1]]

\* the fragment of d that the keys lead to, Absent if they lead nowhere
RECURSIVE Fragment(_, _)
Fragment(d, keys) ==
    IF keys = <<>> THEN d
    ELSE IF IsDict(d) /\ Head(keys) \in KeysOf(d)
    THEN Fragment(d.m[Head(keys)], Tail(keys))
    ELSE Absent

\* the fragment under the last key is not what that member has to be: type,
\* id and href are strings; attributes, relationships, links and meta are
\* objects (other fragments offend by the members they have or lack)
Offends(keys, fragment) ==
    IF keys = <<>> THEN TRUE
    ELSE LET last == keys[Len(keys)] IN
         CASE last \in {"type", "id", "href"} -> ~IsStr(fragment)
           [] last \in {"attributes", "relationships", "links", "meta"} ->
                ~IsDict(fragment)
           [] OTHER -> TRUE

\* assert_resource_object has been called and has returned or raised
ResourceObjectChecked ==
    /\ ret # NoReturn
    /\ call.fn = "assert_resource_object"

\* the raised pointer is the called pointer followed by the keys that lead to
\* an offending fragment of the document
PointsAtOffendingFragment ==
    /\ IsUnder(call.source_pointer, ret.source_pointer)
    /\ LET keys == TraversedKeys(call.source_pointer, ret.source_pointer) IN
       /\ Fragment(call.d, keys) # Absent
       /\ Offends(keys, Fragment(call.d, keys))

UndeclaredMember(d) ==
    ~(KeysOf(d) \subseteq
        {"id", "type", "attributes", "relationships", "links", "meta"})

TypeIsString(d) == "type" \in KeysOf(d) /\ IsStr(d.m["type"])

RelationshipObjectCheckedWithoutDiscipline ==
    /\ ret # NoReturn
    /\ call.fn = "assert_relationship_object"
    /\ ~call.to_one
    /\ ~call.to_many

\* the links and meta members that d has are a valid links object and a
\* valid meta object
LinksAndMetaValid(d) ==
    /\ "links" \in KeysOf(d) =>
            assert_links_object(d.m["links"], <<"/">>) = Valid
    /\ "meta" \in KeysOf(d) =>
            assert_meta_object(d.m["meta"], <<"/">>) = Valid

\* C12: assert_relationship_object called without a to-one or to-many
\* discipline accepts every map whose key set is a non-empty subset of
\* {data, links, meta} with a valid links object and a valid meta object,
\* and rejects the empty map; data is not mandatory then.
C12_AnyOfDataLinksMetaIsAccepted ==
    (RelationshipObjectCheckedWithoutDiscipline /\ IsDict(call.d)) =>
        /\ (/\ KeysOf(call.d) # {}
            /\ KeysOf(call.d) \subseteq {"data", "links", "meta"}
            /\ LinksAndMetaValid(call.d))
           => ret = Valid
        /\ KeysOf(call.d) = {} => ret = BadRequest(call.source_pointer)

\* ---------------------------------------------------------------- C13
\* the entries that the fields[...] parameters request, in order: the
\* stripped, non-empty tokens of their values
RECURSIVE RequestedNames(_)
RequestedNames(args) ==
    IF args = <<>> THEN <<>>
    ELSE LET tokens == split_str_on_comma(Head(args)[2])
             stripped == [i \in DOMAIN tokens |-> Strip(tokens[i])]
         IN  (IF FullMatch("fields", Head(args)[1])
              THEN SelectSeq(stripped, LAMBDA t : t # <<>>)
              ELSE <<>>) \o RequestedNames(Tail(args))

\* the name under which storage knows a requested name: the foreign key of
\* the relationship registered under that wire name, the name itself
\* otherwise
StorageName(resource_class, name) ==
    IF InRels(resource_class, name)
    THEN <<resource_class._rels_by_japi_name[name[1]].mapped_fk_name>>
    ELSE name

HasParameter(family, args) ==
    \E i \in DOMAIN args : FullMatch(family, args[i][1])

\* get_sparse_fields has been called and has returned or raised
SparseFieldsResolved ==
    /\ ret # NoReturn
    /\ call.fn = "get_sparse_fields"

OrderByResolved ==
    /\ ret # NoReturn
    /\ call.fn = "get_order_by_fields"

\* the tokens of the sort parameter, none if it is missing or empty
SortTokens(args) ==
    IF \E i \in DOMAIN args : args[i][1] = <<"sort">>
    THEN split_str_on_comma(
            args[CHOOSE i \in DOMAIN args :
                    /\ args[i][1] = <<"sort">>
                    /\ \A j \in 1..(i - 1) : args[j][1] # <<"sort">>][2])
    ELSE <<>>

\* what the claim makes of one token: a relationship wire name, with or
\* without a leading "-", becomes that relationship's foreign key with the
\* "-" kept; every other token is unchanged
OrderByEntry(resource_class, token) ==
    IF InRels(resource_class, token)
    THEN StorageName(resource_class, token)
    ELSE IF Head(token) = "-" /\ InRels(resource_class, Tail(token))
    THEN <<"-">> \o StorageName(resource_class, Tail(token))
    ELSE token

FilterResolved ==
    /\ ret # NoReturn
    /\ call.fn = "get_filter"

\* the terms the claim expects, in order: one per literal term of every
\* filter[<field>] parameter, under the storage name of the field
RECURSIVE ExpectedTerms(_, _)
ExpectedTerms(resource_class, args) ==
    IF args = <<>> THEN <<>>
    ELSE LET key == Head(args)[1]
             tokens == split_str_on_comma(Head(args)[2])
             field == StorageName(resource_class,
                                  SubSeq(key, 3, Len(key) - 1))
         IN  (IF FullMatch("filter", key)
              THEN [i \in DOMAIN tokens |->
                        [op |-> IF ContainsPercent(tokens[i])
                                THEN "like" ELSE "==",
                         field |-> field, value |-> tokens[i]]]
              ELSE <<>>) \o ExpectedTerms(resource_class, Tail(args))

\* the disjunctions of the conjunction that get_filter returned
Disjunctions(filters) ==
    IF filters.none THEN <<>> ELSE filters.items[1].and

\* the terms of a sequence of disjunctions, in order
RECURSIVE TermsOf(_)
TermsOf(disjunctions) ==
    IF disjunctions = <<>> THEN <<>>
    ELSE Head(disjunctions).or \o TermsOf(Tail(disjunctions))

\* C15: get_filter produces one term {field, op, value} per literal term of
\* every filter[<field>] parameter, with field the storage name and op
\* 'like' if the term contains '%' and '==' otherwise; the terms are
\* combined as a conjunction over the distinct filtered fields of one
\* disjunction per field that contains all values supplied for that field,
\* also those supplied through repeated parameters of the same field.
C15_FilterIsConjunctionOfPerFieldDisjunctions ==
    FilterResolved =>
        /\ ret.status = "ok"
        /\ LET ors == Disjunctions(ret.filters)
               expected == ExpectedTerms(call.resource_class, call.args)
           IN  /\ ret.filters.none <=> expected = <<>>
               /\ {TermsOf(ors)[i] : i \in DOMAIN TermsOf(ors)}
                    = {expected[i] : i \in DOMAIN expected}
               /\ Len(TermsOf(ors)) = Len(expected)
               /\ \A i \in DOMAIN ors :
                    /\ ors[i].or # <<>>
                    /\ \A t \in DOMAIN ors[i].or :
                            ors[i].or[t].field = ors[i].or[1].field
               /\ \A i, j \in DOMAIN ors :
                    i # j => ors[i].or[1].field # ors[j].or[1].field

\* ---------------------------------------------------------------- C16
\* split_str_on_comma has been called and has returned
SplitDone ==
    /\ ret # NoReturn
    /\ call.fn = "split_str_on_comma"

\* the character at position i (from 1) is escaped: the one before it is a
\* backslash that is not itself escaped
RECURSIVE Escaped(_, _)
Escaped(str, i) ==
    /\ i > 1
    /\ str[i - 1] = "\\"
    /\ ~Escaped(str, i - 1)

\* position i holds a comma that cuts the string
IsCut(str, i) == str[i] = "," /\ ~Escaped(str, i)

\* position i holds a backslash that escapes the character after it
IsEscapingBackslash(str, i) ==
    /\ str[i] = "\\"
    /\ ~Escaped(str, i)
    /\ i < Len(str)

\* the characters of positions a..b without the escaping backslashes
RECURSIVE Unescaped(_, _, _)
Unescaped(str, a, b) ==
    IF a > b THEN <<>>
    ELSE (IF IsEscapingBackslash(str, a) THEN <<>> ELSE <<str[a]>>)
         \o Unescaped(str, a + 1, b)

\* the non-empty pieces between the cuts, from position a on
RECURSIVE TokensFrom(_, _)
TokensFrom(str, a) ==
    IF a > Len(str) THEN <<>>
    ELSE LET cuts == {i \in a..Len(str) : IsCut(str, i)}
             cut == IF cuts = {} THEN Len(str) + 1
                    ELSE CHOOSE i \in cuts : \A j \in cuts : i <= j
             token == Unescaped(str, a, cut - 1)
         IN  (IF token = <<>> THEN <<>> ELSE <<token>>)
             \o TokensFrom(str, cut + 1)

\* C16: for every string over ',', '\' and ordinary characters,
\* split_str_on_comma returns the tokens obtained by cutting the string at
\* every comma that is not escaped by a backslash, removing exactly one
\* escaping backslash per escaped character, and dropping empty tokens; the
\* docstring's example yields hello / world,hello\ / again\,world.
C16_SplitsAtUnescapedCommas ==
    SplitDone =>
        /\ ret.result = TokensFrom(call.str, 1)
        /\ \A i \in DOMAIN ret.result : ret.result[i] # <<>>
        /\ call.str = DocstringExample =>
            ret.result = << <<"hello">>,
                            <<"world", ",", "hello", "\\">>,
                            <<"again", "\\", ",", "world">> >>

\* a string with an escaped comma, an escaped backslash before a cutting
\* comma and an empty token has been split
C16_Witness ==
    /\ SplitDone
    /\ call.str = <<"\\", ",", "\\", "\\", ",">>
    /\ ret.result = << <<",", "\\">> >>

\* ---------------------------------------------------------------- C17
\* C17: for every NumberSize paginator with number > 0, size > 0 and
\* total_resources >= 0: offset = (number-1)*size, limit = size, and
\* last_page, also reported as meta total-pages, is the least integer L >= 0
\* with L*size >= total_resources; total 10, size 3, number 2 gives
\* last_page 4, offset 3, limit 3.
C17_OffsetLimitAndLastPage ==
    paginator.built =>
        LET L == last_page(paginator) IN
        /\ paginator.number > 0
        /\ paginator.size > 0
        /\ paginator.total_resources >= 0
        /\ offset(paginator) = (paginator.number - 1) * paginator.size
        /\ limit(paginator) = paginator.size
        /\ L >= 0
        /\ L * paginator.size >= paginator.total_resources
        /\ \A K \in 0..(L - 1) : K * paginator.size < paginator.total_resources
        /\ "json_meta" \in DOMAIN ret => ret.json_meta["total-pages"] = L
        /\ (/\ paginator.total_resources = 10
            /\ paginator.size = 3
            /\ paginator.number = 2)
           => L = 4 /\ offset(paginator) = 3 /\ limit(paginator) = 3

\* the paginator of total 10, size 3, number 2 has reported 4 pages
C17_Witness ==
    /\ paginator.built
    /\ paginator.total_resources = 10
    /\ paginator.size = 3
    /\ paginator.number = 2
    /\ "json_meta" \in DOMAIN ret
    /\ ret.json_meta["total-pages"] = 4

\* ---------------------------------------------------------------- C18
\* json_links has returned its dictionary
LinksMade == "json_links" \in DOMAIN ret

\* the page a link of the dictionary points at
PageOf(link) == link.query["page[number]"]

\* C18: json_links always contains self, first and last; it contains prev
\* if and only if number > 1, and then prev points at page number-1; it
\* contains next if and only if number < last_page, and then next points at
\* page number+1; with number = 1 and last_page = 1 neither is present.
C18_PrevAndNextOnlyWhereAPageExists ==
    LinksMade =>
        LET d == ret.json_links IN
        /\ {"self", "first", "last"} \subseteq DOMAIN d
        /\ DOMAIN d \subseteq {"self", "first", "last", "prev", "next"}
        /\ "prev" \in DOMAIN d <=> paginator.number > 1
        /\ "prev" \in DOMAIN d =>
                PageOf(d["prev"]) = StrOfInt(paginator.number - 1)
        /\ "next" \in DOMAIN d <=> paginator.number < last_page(paginator)
        /\ "next" \in DOMAIN d =>
                PageOf(d["next"]) = StrOfInt(paginator.number + 1)
        /\ (paginator.number = 1 /\ last_page(paginator) = 1)
           => DOMAIN d = {"self", "first", "last"}

\* the links of the only page: number 1 of 1, neither prev nor next
C18_Witness ==
    /\ LinksMade
    /\ paginator.number = 1
    /\ last_page(paginator) = 1
    /\ paginator.total_resources > 0
    /\ DOMAIN ret.json_links = {"self", "first", "last"}

\* ---------------------------------------------------------------- C19
\* C19: when total_resources is 0 (requested number 1), last_page is 0 and
\* json_links still produces self, first and last, and each of these three
\* links carries page[number]=1.
C19_EmptyCollectionLinksPointAtPageOne ==
    (/\ LinksMade
     /\ paginator.total_resources = 0
     /\ paginator.number = 1)
    => /\ last_page(paginator) = 0
       /\ {"self", "first", "last"} \subseteq DOMAIN ret.json_links
       /\ \A name \in {"self", "first", "last"} :
            PageOf(ret.json_links[name]) = "1"

\* ---------------------------------------------------------------- C20
\* from_request has been called and has returned or raised
FromRequestDone ==
    /\ ret # NoReturn
    /\ call.fn = "from_request"

\* the request carries a value under the name: present and not empty
Carries(query_args, name) ==
    name \in DOMAIN query_args /\ query_args[name][1] # ""

\* the value under the name is a positive integer
IsPositiveInteger(query_args, name) ==
    /\ Carries(query_args, name)
    /\ IntOfStr(query_args[name][1]).ok
    /\ IntOfStr(query_args[name][1]).n >= 1

\* C20: from_request builds a paginator whose size is the default size (25)
\* whenever the request carries no page[size] value (absent or empty), and
\* whose number and size otherwise are the positive integers parsed from
\* page[number] and page[size]; a value that is not an integer or is below
\* 1 is rejected with a structural error (400) naming the parameter.
C20_FromRequestDefaultsAndParses ==
    FromRequestDone =>
        LET q == call.query_args IN
        /\ (/\ IsPositiveInteger(q, "page[number]")
            /\ ~Carries(q, "page[size]"))
           => /\ ret.status = "ok"
              /\ paginator.built
              /\ paginator.size = DEFAULT_LIMIT
              /\ paginator.number = IntOfStr(q["page[number]"][1]).n
        /\ (/\ IsPositiveInteger(q, "page[number]")
            /\ IsPositiveInteger(q, "page[size]"))
           => /\ ret.status = "ok"
              /\ paginator.built
              /\ paginator.size = IntOfStr(q["page[size]"][1]).n
              /\ paginator.number = IntOfStr(q["page[number]"][1]).n
        /\ (/\ Carries(q, "page[number]")
            /\ ~IsPositiveInteger(q, "page[number]"))
           => /\ ret.status = "400"
              /\ ret.source_parameter = "page[number]"
        /\ (/\ IsPositiveInteger(q, "page[number]")
            /\ Carries(q, "page[size]")
            /\ ~IsPositiveInteger(q, "page[size]"))
           => /\ ret.status = "400"
              /\ ret.source_parameter = "page[size]"

\* ---------------------------------------------------------------- C30
\* the total length of a sequence of tokens
RECURSIVE TotalLen(_)
TotalLen(tokens) ==
    IF tokens = <<>> THEN 0 ELSE Len(Head(tokens)) + TotalLen(Tail(tokens))

\* the positions of the backslashes met while the escaped flag is clear
UnescapedBackslashes(str) ==
    {i \in DOMAIN str : str[i] = "\\" /\ ~Escaped(str, i)}

\* the positions of the commas that split
SplittingCommas(str) == {i \in DOMAIN str : IsCut(str, i)}

\* C30: for every input string, whatever its last character,
\* split_str_on_comma never emits a backslash that is not itself escaped:
\* the total length of the returned tokens equals the input length minus
\* the number of splitting commas minus the number of unescaped backslashes.
C30_EveryUnescapedBackslashIsDropped ==
    SplitDone =>
        TotalLen(ret.result) =
            Len(call.str) - Cardinality(SplittingCommas(call.str))
                          - Cardinality(UnescapedBackslashes(call.str))

\* ---------------------------------------------------------------- C21
\* the values a link carries under a name: urlencode writes one occurrence
\* for each value of the name in the query
ValuesIn(link, name) ==
    IF name \in DOMAIN link.query THEN <<link.query[name]>> ELSE <<>>

\* C21: every pagination link built by page_link carries every query
\* parameter of the original request other than page[size] and page[number]
\* with all of its values, also every value of a repeated parameter, and
\* carries page[size] and page[number] exactly once with the values of the
\* target page.
C21_LinksKeepTheOtherParameters ==
    (LinksMade /\ call.fn = "from_request") =>
        \A name \in DOMAIN ret.json_links :
            LET link == ret.json_links[name] IN
            /\ \A k \in DOMAIN call.query_args \ {"page[size]", "page[number]"} :
                    ValuesIn(link, k) = call.query_args[k]
            /\ DOMAIN link.query \subseteq
                    DOMAIN call.query_args \cup {"page[size]", "page[number]"}
            /\ ValuesIn(link, "page[size]") = <<StrOfInt(paginator.size)>>
            /\ ValuesIn(link, "page[number]") =
                    <<StrOfInt(LinkedPage(paginator, name))>>

\* ---------------------------------------------------------------- C27
\* the errors the framework classifies: BadRequest, Forbidden and
\* SemanticError
ClassifiedErrors == {"400", "403", "422"}

\* C27: for every body that assert_resource_object accepts, both
\* Resource.deserialize and Resource.create_patch_dict end either with a
\* result or with a classified error (400, 403 or 422); no accepted
\* document, whether its linkage is null, is not an object or is an
\* identifier with a non-numeric id, produces an unclassified exception.
C27_AcceptedBodiesEndWithResultOrClassifiedError ==
    /\ (Deserialized /\ AssertResourceObject(doc) = "ok")
            => status \in {"ok"} \cup ClassifiedErrors
    /\ (Patched /\ AssertResourceObject(doc) = "ok")
            => patch_dict.made \/ status \in ClassifiedErrors

\* ---------------------------------------------------------------- C25
\* the http_status of an ErrorList has been read
HttpStatusRead == call.fn = "ErrorList.http_status" /\ ret.status = "ok"

\* the statuses of the errors of the list
StatusesOf(errors) == {errors[i].http_status.n : i \in DOMAIN errors}

\* C25: for every ErrorList with at least one error, http_status is the
\* common status if all contained errors have the same status, otherwise
\* 400 if at least one contained error has a status in [400,500), otherwise
\* 500.
C25_ErrorListStatus ==
    (HttpStatusRead /\ call.errors # <<>>) =>
        LET statuses == StatusesOf(call.errors) IN
        /\ Cardinality(statuses) = 1 => ret.http_status.n \in statuses
        /\ (Cardinality(statuses) > 1 /\ statuses \cap 400..499 # {})
                => ret.http_status.n = 400
        /\ (Cardinality(statuses) > 1 /\ statuses \cap 400..499 = {})
                => ret.http_status.n = 500

\* a list of errors with different statuses, none of them in [400,500), one
\* of them 500, gave 500
C25_Witness ==
    /\ HttpStatusRead
    /\ StatusesOf(call.errors) = {399, 500}
    /\ ret.http_status.n = 500

\* ---------------------------------------------------------------- C26
\* an Error has been created and serialized
ErrorSerialized == call.fn = "Error.json" /\ ret.status = "ok"

\* a value was supplied for the parameter when the error was created
Supplied(name) == name \in DOMAIN call.kwargs

\* C26: the serialized form of every Error always contains status and
\* title, and contains each optional member (id, links.about, code, detail,
\* source.pointer, source.parameter, meta) if and only if a value was
\* supplied for it when the error was created; an error created with
\* neither a source pointer nor a source parameter serializes without a
\* source member.
C26_ErrorMembersAreTheSuppliedOnes ==
    ErrorSerialized =>
        LET d == ret.json
            source == IF "source" \in DOMAIN d THEN d["source"] ELSE <<>>
        IN
        /\ {"status", "title"} \subseteq DOMAIN d
        /\ "id" \in DOMAIN d <=> Supplied("id")
        /\ "links" \in DOMAIN d <=> Supplied("about")
        /\ "code" \in DOMAIN d <=> Supplied("code")
        /\ "detail" \in DOMAIN d <=> Supplied("detail")
        /\ "meta" \in DOMAIN d <=> Supplied("meta")
        /\ "pointer" \in DOMAIN source <=> Supplied("source_pointer")
        /\ "parameter" \in DOMAIN source <=> Supplied("source_parameter")
        /\ "source" \in DOMAIN d <=>
                (Supplied("source_pointer") \/ Supplied("source_parameter"))

\* ---------------------------------------------------------------- C22
MapNames == {"_attrs_by_japi_name", "_rels_by_japi_name"}

\* the field objects in the wire-name maps of a class
MapRefs(cls) ==
    UNION {{classes[cls][map_name][w] : w \in DOMAIN classes[cls][map_name]} :
            map_name \in MapNames}

\* no field object is in the maps of two classes
NoSharedField ==
    \A c \in DOMAIN classes, d \in DOMAIN classes :
        c # d => MapRefs(c) \cap MapRefs(d) = {}

\* a change of a field changes the fields of the maps of one class only
MutationIsLocal ==
    (mutated' /\ ~mutated) =>
        \E c \in DOMAIN classes :
            /\ \E ref \in MapRefs(c) : heap'[ref] # heap[ref]
            /\ \A d \in DOMAIN classes \ {c} :
                    \A ref \in MapRefs(d) : heap'[ref] = heap[ref]

\* C22: after any sequence of class creations no field instance is shared
\* between the attribute or relationship wire-name maps of two different
\* resource classes: changing a property of a field in one class's map
\* leaves the fields in the maps of its parents, children and siblings
\* unchanged.
C22_FieldsAreNotShared == []NoSharedField /\ [][MutationIsLocal]_vars

\* a class inherits a field from a listed base, the field in the map of the
\* class has been made read-only and the one of the base is as it was
C22_Witness ==
    /\ mutated
    /\ \E c \in DOMAIN classes, map_name \in MapNames :
       \E n \in DOMAIN classes[c].bases :
       \E w \in DOMAIN classes[c][map_name] :
          LET base == classes[c].bases[n] IN
          /\ w \notin DOMAIN classes[c].attrs.fields
          /\ w \in DOMAIN classes[base][map_name]
          /\ heap[classes[c][map_name][w]].writable_during = {}
          /\ heap[classes[base][map_name][w]].writable_during = ALWAYS_SET

\* ---------------------------------------------------------------- C23
\* the kind of field a map holds
KindOf(map_name) ==
    IF map_name = "_attrs_by_japi_name" THEN "Attribute"
    ELSE "ToOneRelationship"

\* the wire names a class body declares for a map
LocalWireNames(cls, map_name) ==
    {p \in DOMAIN classes[cls].attrs.fields :
        classes[cls].attrs.fields[p].kind = KindOf(map_name)}

\* the bases of a class that have the wire name in the map, by position
BasesWith(cls, map_name, w) ==
    {n \in DOMAIN classes[cls].bases :
        w \in DOMAIN classes[classes[cls].bases[n]][map_name]}

\* the first-listed base that has the wire name
FirstBaseWith(cls, map_name, w) ==
    classes[cls].bases[CHOOSE n \in BasesWith(cls, map_name, w) :
                            \A m \in BasesWith(cls, map_name, w) : n <= m]

\* the class statement just executed left cls with maps made of its local
\* fields and of the fields of its first-listed bases, as they were
ComposedFromLocalAndFirstBase(cls) ==
    \A map_name \in MapNames :
        LET map == classes'[cls][map_name] IN
        /\ DOMAIN map =
                LocalWireNames(cls, map_name)'
                \cup UNION {DOMAIN classes[classes'[cls].bases[n]][map_name] :
                                n \in DOMAIN classes'[cls].bases}
        /\ \A w \in DOMAIN map :
            IF w \in LocalWireNames(cls, map_name)'
            THEN /\ map[w] = BodyRef(cls, w)
                 /\ heap'[map[w]].kind = KindOf(map_name)
                 /\ heap'[map[w]].python_name = w
            ELSE heap'[map[w]] =
                    heap[classes[FirstBaseWith(cls, map_name, w)'][map_name][w]]

\* C23: for every created class, its attribute map and its relationship map
\* contain, for each wire name, the locally declared field if one is
\* declared under that wire name, otherwise the copied field of the
\* first-listed parent that has this wire name, and no other entries.
C23_MapsAreLocalOverFirstListedParent ==
    [][\A cls \in DOMAIN classes' \ DOMAIN classes :
            ComposedFromLocalAndFirstBase(cls)]_vars

\* a class lists two bases that both have author, does not declare author
\* itself, and its author is the one of the first-listed base
C23_Witness ==
    \E c \in DOMAIN classes :
        LET rels(cls) == classes[cls]._rels_by_japi_name
            bases == classes[c].bases
        IN
        /\ Len(bases) = 2
        /\ "author" \notin DOMAIN classes[c].attrs.fields
        /\ "author" \in DOMAIN rels(bases[1]) \cap DOMAIN rels(bases[2])
        /\ "author" \in DOMAIN rels(c)
        /\ heap[rels(bases[1]).author] # heap[rels(bases[2]).author]
        /\ heap[rels(c).author] = heap[rels(bases[1]).author]

\* ---------------------------------------------------------------- C24
\* the class has the name, declared in its body or inherited
Has(cls, name) == DefiningClass(classes, cls, name) # ""

\* Resource.__init__ has run for a class
ResourceCreated == call.fn = "Resource.__init__"

\* C24: a resource class is instantiable exactly when it has an Id field, a
\* model class, a resource-type name and a URL component, whether these are
\* declared on the class itself or inherited from a parent class; a subclass
\* that inherits all four from an instantiable parent and adds only
\* attributes can be instantiated.
C24_InstantiableWhenDeclaredOrInherited ==
    /\ \A cls \in DOMAIN classes :
            classes[cls]._instantiable <=>
                \A name \in RequiredNames : Has(cls, name)
    /\ ResourceCreated =>
            (ret.status = "ok" <=>
                \A name \in RequiredNames : Has(call.cls, name))

\* ---------------------------------------------------------------- C29
\* the relationships of a resource have been serialized
RelationshipsSerialized == call.fn = "serialize"

\* C29: for every resource class T and every relationship in T's
\* relationship map, whether declared on T or inherited from a parent
\* class, the self and related links produced when serializing a resource
\* of class T are built from T's own URL component.
C29_LinksUseTheUrlComponentOfTheSerializedClass ==
    RelationshipsSerialized =>
        LET own == UrlComponentOf(DefiningClass(classes, call.cls,
                                                "japi_resource_url_component"))
        IN
        /\ ret.status = "ok"
        /\ \A w \in DOMAIN classes[call.cls]._rels_by_japi_name :
            /\ ret.links[w].self =
                    link_for_relationship(link_prefix, own, "1", w)
            /\ ret.links[w].related =
                    link_for_related(link_prefix, own, "1", w)

\* ---------------------------------------------------------------- C28
\* handle_request has returned its response
Returned == api_pc = "returned"

\* the response is an error response
IsErrorResponse == api_response.status >= 400

\* C28: in every run of FlaskAPI.handle_request, for every handler and
\* whatever the before_ and after_ hooks do: if the request ends with an
\* error response then no commit was performed on the session during that
\* request, and the session is removed exactly once at the end.
C28_ErrorResponseMeansNoCommit ==
    Returned =>
        /\ IsErrorResponse => session.commits = 0
        /\ session.removes = 1

\* every request is answered, and the session has then been removed once
\* and was not removed before
SessionRemovedOnceAtTheEnd ==
    /\ <>Returned
    /\ [](session.opened => (session.removes = IF Returned THEN 1 ELSE 0))

====
